-------------------------- MODULE Services_proofs --------------------------
(***************************************************************************)
(* Proofs about what agents share and call, composed as MCServices         *)
(* composes it, for any callers, clients, threads, agents, messages,       *)
(* consumers, listeners, handlers, costs and bounds.                       *)
(***************************************************************************)
EXTENDS MCServices, Sequences, FiniteSetTheorems, WellFoundedInduction, TLAPS

-----------------------------------------------------------------------------
(* The lock.                                                               *)
LockInv == Rights!LockTyped /\ Rights!HolderHolds

\* At the start nobody is in.
LEMMA LockStart == Rights!LockInit => LockInv
  BY DEF Rights!LockInit, LockInv, Rights!LockTyped, Rights!HolderHolds

\* Entering, leaving, crashing and lapsing keep the invariant.
LEMMA LockStep ==
  ASSUME LockInv, Rights!LockNext
  PROVE  LockInv'
<1> USE LockAssumption DEF Rights!TokenAssumption, LockInv, Rights!LockTyped, Rights!HolderHolds
<1>1. CASE Rights!Lapse
  BY <1>1 DEF Rights!Lapse
<1>2. ASSUME NEW c \in Clients, Rights!Enter(c) \/ Rights!GiveUp(c) \/ Rights!Crash(c) \/ Rights!Recover(c)
      PROVE  LockInv'
  BY <1>2 DEF Rights!Enter, Rights!GiveUp, Rights!Crash, Rights!Recover, Rights!Becomes
<1>3. ASSUME NEW c \in Clients, Rights!Acquire(c) PROVE LockInv'
  <2>1. \A d \in Clients : client[d] = "in" => d \in lapsed
    BY <1>3 DEF Rights!Acquire
  <2> QED BY <1>3, <2>1 DEF Rights!Acquire, Rights!Becomes
<1>4. ASSUME NEW c \in Clients, Rights!Exit(c) PROVE LockInv'
  <2>1. \A d \in Clients \ {c} : client[d] = "in" /\ d \notin lapsed => Rights!Released(c) = d
    BY DEF Rights!Released
  <2> QED BY <1>4, <2>1 DEF Rights!Exit, Rights!Becomes, Rights!Released
<1> QED
  BY <1>1, <1>2, <1>3, <1>4 DEF Rights!LockNext

-----------------------------------------------------------------------------
(* The budgets.  A goal is paused exactly while its pause is being logged, *)
(* and the log never knows of more than was charged; what was recorded at  *)
(* a price is part of the total.                                           *)
QuotaTyped ==
  /\ budget \in Nat /\ spent \in Nat /\ log \in [spent : Nat, budget : Nat, paused : BOOLEAN]
  /\ step \in {"idle", "charged", "paused"} /\ paused \in BOOLEAN /\ excused \in BOOLEAN
QuotaInv ==
  /\ QuotaTyped
  /\ step = "paused" => paused
  /\ step = "idle" /\ spent > budget => paused \/ excused
  /\ log.spent <= spent
CostInv ==
  /\ strict \in BOOLEAN /\ table \in [Money!Units -> Nat]
  /\ total \in Nat /\ priced \in Nat /\ used \in Nat /\ lost \in Nat /\ warned \in Nat
  /\ priced <= total
  /\ priced > Money!Ceiling => warned > Money!Ceiling
  /\ used = total + lost /\ (lost > 0 => warned > Money!Ceiling)

\* A set of naturals that is not empty has a least one.
LEMMA LeastNumber ==
  ASSUME NEW S \in SUBSET Nat, S # {}
  PROVE  \E n \in S : \A m \in S : n <= m
<1>1. PICK n \in S : \A m \in S : ~(m < n)
  <2>1. \E x \in S : \A y \in S : <<y, x>> \notin OpToRel(<, Nat)
    BY NatLessThanWellFounded, WFMin
  <2> QED BY <2>1 DEF OpToRel
<1> QED BY <1>1

\* A set of numbers up to n has a greatest one.
LEMMA HasGreatest ==
  ASSUME NEW n \in Nat, NEW S \in SUBSET (0..n), S # {}
  PROVE  \E x \in S : \A y \in S : x >= y
<1> DEFINE Below == {k \in 0..n : n - k \in S}
<1>1. Below \in SUBSET Nat /\ Below # {}
  <2>1. PICK m \in S : m \in 0..n
    OBVIOUS
  <2>2. n - (n - m) = m /\ n - m \in 0..n
    BY <2>1
  <2> QED BY <2>1, <2>2
<1>2. PICK k \in Below : \A j \in Below : k <= j
  BY <1>1, LeastNumber
<1>3. \A m \in S : n - k >= m
  <2>1. ASSUME NEW m \in S PROVE n - k >= m
    <3>1. m \in 0..n /\ n - m \in 0..n /\ n - (n - m) = m
      OBVIOUS
    <3>2. k <= n - m
      BY <1>2, <3>1
    <3> QED BY <1>2, <3>1, <3>2
  <2> QED BY <2>1
<1>4. n - k \in S
  BY <1>2
<1> QED BY <1>3, <1>4

\* The ceiling is the least cost.
LEMMA CeilingIsNumber == Money!Ceiling \in Nat
BY MoneyAssumption, LeastNumber DEF Money!CostsAssumption, Money!Ceiling

\* Nothing is charged at the start.
LEMMA MoneyStart == Money!Init => QuotaInv /\ CostInv
<1> SUFFICES ASSUME Money!Init PROVE QuotaInv /\ CostInv
  OBVIOUS
<1>1. budget \in Nat
  BY MoneyAssumption DEF Money!Init, Money!CostsAssumption
<1>2. QuotaTyped
  BY <1>1 DEF Money!Init, QuotaTyped
<1>3. QuotaInv
  BY <1>1, <1>2 DEF Money!Init, QuotaInv
<1>4. strict \in BOOLEAN /\ table \in [Money!Units -> Nat]
  BY DEF Money!Init
<1>5. CostInv
  BY <1>4, CeilingIsNumber DEF Money!Init, CostInv
<1> QED BY <1>3, <1>5

\* Charging, logging, pausing, resuming, failing and restarting keep it.
LEMMA QuotaStep ==
  ASSUME QuotaInv, Money!QuotaNext
  PROVE  QuotaInv'
<1>0. \A c \in Costs : c \in Nat
  BY MoneyAssumption DEF Money!CostsAssumption
<1> USE DEF QuotaInv
<1>1. ASSUME NEW c \in Costs, Money!Charge(c) PROVE QuotaInv'
  <2>1. spent' \in Nat /\ spent' = spent + c /\ c \in Nat /\ spent \in Nat /\ log.spent \in Nat
    BY <1>0, <1>1 DEF Money!Charge, QuotaTyped
  <2>2. log.spent' <= spent'
    BY <1>1, <2>1 DEF Money!Charge
  <2>3. QuotaTyped'
    BY <1>1, <2>1 DEF Money!Charge, QuotaTyped
  <2> QED BY <1>1, <2>2, <2>3 DEF Money!Charge
<1>2. ASSUME NEW c \in Costs, Money!Resume(c) PROVE QuotaInv'
  <2>1. c \in Nat /\ spent \in Nat
    BY <1>0 DEF QuotaTyped
  <2>2. excused' \in BOOLEAN /\ paused' \in BOOLEAN
    <3>1. CASE paused
      BY <1>2, <3>1 DEF Money!Resume
    <3>2. CASE ~paused
      BY <1>2, <3>2, Zenon DEF Money!Resume, QuotaTyped
    <3> QED BY <3>1, <3>2
  <2>3. log' = log \/ log' = [spent |-> spent, budget |-> c, paused |-> FALSE]
    BY <1>2 DEF Money!Resume
  <2>4. QuotaTyped'
    <3>1. log' \in [spent : Nat, budget : Nat, paused : BOOLEAN]
      <4>1. CASE log' = log
        BY <4>1 DEF QuotaTyped
      <4>2. CASE log' = [spent |-> spent, budget |-> c, paused |-> FALSE]
        BY <2>1, <4>2
      <4> QED BY <2>3, <4>1, <4>2
    <3>2. budget' = c /\ spent' = spent /\ step' = step
      BY <1>2 DEF Money!Resume
    <3> QED BY <2>1, <2>2, <3>1, <3>2 DEF QuotaTyped
  <2>5. log'.spent <= spent'
    BY <1>2, <2>1, <2>3 DEF Money!Resume
  <2>6. spent' > budget' => paused' \/ excused'
    BY <1>2 DEF Money!Resume, QuotaTyped
  <2> QED BY <1>2, <2>4, <2>5, <2>6 DEF Money!Resume
<1>3. CASE Money!LogCharge
  <2>1. log' = [log EXCEPT !.spent = spent, !.budget = budget]
    BY <1>3 DEF Money!LogCharge
  <2>2. log' \in [spent : Nat, budget : Nat, paused : BOOLEAN] /\ log'.spent = spent
    BY <2>1 DEF QuotaTyped
  <2>3. CASE spent > budget
    BY <1>3, <2>2, <2>3 DEF Money!LogCharge, Money!Exceeded, QuotaTyped
  <2>4. CASE ~(spent > budget)
    BY <1>3, <2>2, <2>4 DEF Money!LogCharge, Money!Exceeded, QuotaTyped
  <2> QED BY <2>3, <2>4
<1>4. CASE Money!LogPause
  BY <1>4 DEF Money!LogPause, QuotaTyped
<1>5. CASE Money!AppendFails
  BY <1>5 DEF Money!AppendFails, QuotaTyped
<1>6. CASE Money!Restart
  BY <1>6 DEF Money!Restart, QuotaTyped
<1> QED BY <1>1, <1>2, <1>3, <1>4, <1>5, <1>6 DEF Money!QuotaNext

\* So do recording at a price, at a fallback rate, and setting prices.
LEMMA CostStep ==
  ASSUME CostInv, Money!CostNext
  PROVE  CostInv'
<1> USE MoneyAssumption, CeilingIsNumber DEF CostInv, Money!CostsAssumption
<1>0. Money!Ceiling' = Money!Ceiling
  BY DEF Money!Ceiling
<1>1. ASSUME NEW c \in Costs, Money!Record(c) PROVE CostInv'
  BY <1>0, <1>1 DEF Money!Record, Money!Over
<1>2. ASSUME NEW u \in Money!Units, NEW c \in Costs, Money!RegisterPricing(u, c) PROVE CostInv'
  BY <1>0, <1>2 DEF Money!RegisterPricing
<1>3. ASSUME NEW in \in 0..2, NEW out \in 0..2, Money!RecordTokens(in, out) PROVE CostInv'
  <2> DEFINE first == in * Money!Rate("in")
             second == out * Money!Rate("out")
             stops == in > 0 /\ Money!Stopped(first)
  <2>1. Money!Rate("in") \in Nat /\ Money!Rate("out") \in Nat
    BY DEF Money!Rate, Money!Units, Money!Fallback
  <2>2. /\ first \in Nat /\ second \in Nat
        /\ in = 0 => first = 0
        /\ out = 0 => second = 0
    BY <2>1
  <2> HIDE DEF first, second
  <2>3. CASE stops
    BY <1>0, <1>3, <2>2, <2>3 DEF Money!RecordTokens, Money!Over, Money!Stopped, first, second
  <2>4. CASE ~stops
    <3>1. in > 0 /\ table["in"] # 0 => total + first <= Money!Ceiling
      BY <2>2, <2>4 DEF Money!Stopped, Money!Checked
    <3>2. /\ total' = total + first + second /\ used' = used + first + second
          /\ lost' = lost /\ strict' = strict /\ table' = table
          /\ priced' = priced + (IF table["in"] # 0 THEN first ELSE 0)
                              + (IF table["out"] # 0 THEN second ELSE 0)
          /\ warned' = IF out > 0 /\ Money!Checked("out") THEN Money!Over(total') ELSE warned
      BY <1>3, <2>2, <2>4 DEF Money!RecordTokens, first, second
    <3>3. CASE out > 0 /\ Money!Checked("out")
      BY <1>0, <2>2, <3>2, <3>3 DEF Money!Over
    <3>4. CASE ~(out > 0 /\ Money!Checked("out"))
      <4>1. priced' = priced + (IF table["in"] # 0 THEN first ELSE 0)
        BY <2>2, <3>2, <3>4 DEF Money!Checked
      <4> QED BY <1>0, <2>2, <3>1, <3>2, <3>4, <4>1
    <3> QED BY <3>3, <3>4
  <2> QED BY <2>3, <2>4
<1>4. CASE Money!CheckBudget
  BY <1>0, <1>4 DEF Money!CheckBudget, Money!Over
<1> QED BY <1>1, <1>2, <1>3, <1>4 DEF Money!CostNext

-----------------------------------------------------------------------------
(* Queues and buses.  A delivery that is about to be acknowledged is of a  *)
(* message that was handled.                                               *)
Deliveries == [by : Consumers, msg : Msgs, step : Mail!Steps, live : BOOLEAN]
Waits(m) == m \in queue \/ m \in handled \/ \E c \in Consumers : <<c, m>> \in unacked
QueueInv ==
  /\ work \subseteq Deliveries /\ unacked \subseteq Consumers \X Msgs
  /\ \A w \in work : w.step = "ack" => w.msg \in handled
  /\ \A m \in published : Waits(m)
ListenInv ==
  /\ listening \subseteq Listeners
  /\ inbox \in [Listeners -> SUBSET Msgs] /\ seen \in [Listeners -> SUBSET Msgs]
  /\ sent \in [Listeners -> SUBSET Msgs]
  /\ \A l \in Listeners : inbox[l] \cup seen[l] \subseteq sent[l]
  /\ \A l \in listening : sent[l] = inbox[l] \cup seen[l]

\* Nothing is published at the start.
LEMMA MailStart == Mail!Init => QueueInv /\ ListenInv
BY DEF Mail!Init, QueueInv, ListenInv

\* A delivery that goes on keeps its consumer and its message.
LEMMA DeliveryGoesOn ==
  ASSUME NEW w \in work, NEW s \in Mail!Steps, work \subseteq Deliveries, Mail!Leads(w, s)
  PROVE  /\ work' \subseteq Deliveries
         /\ \A v \in work' : v \in work \/ (v.msg = w.msg /\ v.step = s)
<1>1. [w EXCEPT !.step = s] \in Deliveries /\ [w EXCEPT !.step = s].msg = w.msg
      /\ [w EXCEPT !.step = s].step = s
  BY DEF Deliveries
<1> QED BY <1>1 DEF Mail!Leads

\* Publishing, delivering, handling, settling and losing connections keep it.
LEMMA QueueStep ==
  ASSUME QueueInv, Mail!QueueNext
  PROVE  QueueInv'
<1> USE DEF QueueInv
<1>1. ASSUME NEW x, Mail!Connect(x) PROVE QueueInv'
  BY <1>1 DEF Mail!Connect, Waits
<1>2. ASSUME NEW x, Mail!Disconnect(x) PROVE QueueInv'
  <2>1. \A w \in work : [w EXCEPT !.live = FALSE] \in Deliveries
                       /\ [w EXCEPT !.live = FALSE].msg = w.msg
                       /\ [w EXCEPT !.live = FALSE].step = w.step
    BY DEF Deliveries
  <2>2. /\ work' \subseteq Deliveries
        /\ \A v \in work' : \E w \in work : v.msg = w.msg /\ v.step = w.step
    BY <1>2, <2>1 DEF Mail!Disconnect
  <2>3. \A w \in work' : w.step = "ack" => w.msg \in handled'
    BY <1>2, <2>2 DEF Mail!Disconnect
  <2>4. ASSUME NEW m \in published PROVE Waits(m)'
    <3>1. CASE \E c \in Consumers : <<c, m>> \in unacked
      <4>1. PICK c \in Consumers : <<c, m>> \in unacked
        BY <3>1
      <4>2. CASE c = x
        BY <1>2, <4>1, <4>2 DEF Mail!Disconnect, Waits
      <4>3. CASE c # x
        BY <1>2, <4>1, <4>3 DEF Mail!Disconnect, Waits
      <4> QED BY <4>2, <4>3
    <3> QED BY <1>2, <3>1 DEF Mail!Disconnect, Waits
  <2> QED BY <1>2, <2>2, <2>3, <2>4 DEF Mail!Disconnect
<1>3. ASSUME NEW m \in Msgs, Mail!Publish(m) PROVE QueueInv'
  BY <1>3 DEF Mail!Publish, Waits
<1>4. ASSUME NEW m \in Msgs, NEW c \in Consumers, Mail!Deliver(c, m) PROVE QueueInv'
  <2> DEFINE w == [by |-> c, msg |-> m, step |-> "handler", live |-> TRUE]
  <2>1. w \in Deliveries /\ w.step # "ack"
    BY DEF Deliveries, Mail!Steps
  <2> HIDE DEF w
  <2>2. work' = work \cup {w}
    BY <1>4 DEF Mail!Deliver, w
  <2>3. unacked' = unacked \cup {<<c, m>>} /\ queue' = queue \ {m}
        /\ published' = published /\ handled' = handled
    BY <1>4 DEF Mail!Deliver
  <2>4. \A n \in published' : Waits(n)'
    BY <2>3 DEF Waits
  <2> QED BY <2>1, <2>2, <2>3, <2>4
<1>5. ASSUME NEW w \in work, Mail!HandlerReturns(w) PROVE QueueInv'
  <2>1. Mail!Leads(w, "ack") /\ handled' = handled \cup {w.msg}
        /\ unacked' = unacked /\ published' = published /\ queue' = queue
    BY <1>5 DEF Mail!HandlerReturns
  <2>2. \A v \in work' : v \in work \/ (v.msg = w.msg /\ v.step = "ack")
    BY <2>1, DeliveryGoesOn DEF Mail!Steps
  <2> QED BY <2>1, <2>2, DeliveryGoesOn DEF Mail!Steps, Waits
<1>6. ASSUME NEW w \in work, Mail!HandlerRaises(w) \/ Mail!AckRaises(w) PROVE QueueInv'
  <2>1. Mail!Leads(w, "nack") /\ handled' = handled
        /\ unacked' = unacked /\ published' = published /\ queue' = queue
    BY <1>6 DEF Mail!HandlerRaises, Mail!AckRaises
  <2>2. \A v \in work' : v \in work \/ v.step = "nack"
    BY <2>1, DeliveryGoesOn DEF Mail!Steps
  <2> QED BY <2>1, <2>2, DeliveryGoesOn DEF Mail!Steps, Waits
<1>7. ASSUME NEW w \in work, Mail!Ack(w) PROVE QueueInv'
  <2>1. w.msg \in handled
    BY <1>7 DEF Mail!Ack, Mail!AckOn
  <2> QED BY <1>7, <2>1 DEF Mail!Ack, Waits
<1>8. ASSUME NEW w \in work, Mail!Nack(w) PROVE QueueInv'
  BY <1>8 DEF Mail!Nack, Waits
<1> QED
  BY <1>1, <1>2, <1>3, <1>4, <1>5, <1>6, <1>7, <1>8 DEF Mail!QueueNext

\* Listening, emitting and taking keep it.
LEMMA ListenStep ==
  ASSUME ListenInv, Mail!BusNext
  PROVE  ListenInv'
<1> USE DEF ListenInv
<1>1. ASSUME NEW m \in Msgs, Mail!Emit(m) PROVE ListenInv'
  BY <1>1 DEF Mail!Emit
<1>2. ASSUME NEW l \in Listeners, Mail!Subscribe(l) PROVE ListenInv'
  BY <1>2 DEF Mail!Subscribe
<1>3. ASSUME NEW l \in Listeners, Mail!Unsubscribe(l) PROVE ListenInv'
  BY <1>3 DEF Mail!Unsubscribe
<1>4. ASSUME NEW l \in Listeners, NEW m \in Msgs, Mail!Take(l, m) PROVE ListenInv'
  BY <1>4 DEF Mail!Take
<1> QED BY <1>1, <1>2, <1>3, <1>4 DEF Mail!BusNext

\* What is published waits, is held or was handled.
LEMMA NothingIsDropped == QueueInv /\ ListenInv => Mail!NothingDropped
<1> SUFFICES ASSUME QueueInv, ListenInv, NEW m \in published
             PROVE  m \in queue \cup handled \cup {u[2] : u \in unacked}
  BY DEF ListenInv, Mail!NothingDropped
<1>1. ASSUME NEW c \in Consumers, <<c, m>> \in unacked PROVE m \in {u[2] : u \in unacked}
  <2>1. <<c, m>>[2] = m
    OBVIOUS
  <2> QED BY <1>1, <2>1
<1> QED BY <1>1 DEF QueueInv, Waits

-----------------------------------------------------------------------------
(* The client of an MCP server over stdio.  A response bears the number of *)
(* the request it is to, so an answer is about it or an error; a server    *)
(* whose loop ended though nobody closed it is dead, and what its callers  *)
(* wait for was settled.                                                   *)
Places == {"idle", "locking", "draining", "waiting", "answered", "failed"}
McpTyped ==
  /\ pc \in [Coroutines -> Places] /\ calls \in Nat
  /\ rid \in [Coroutines -> Nat] /\ mine \in [Coroutines -> Nat] /\ answer \in [Coroutines -> Nat]
  /\ proc \in {"none", "alive", "dead"} /\ loop \in {"off", "on", "cancelled"} /\ shut \in BOOLEAN
Numbered == \A r \in stdin \cup stdout : r[1] = r[2] /\ r[1] \in Nat
Answering == \A c \in Coroutines : rid[c] = mine[c] /\ rid[c] <= calls /\ answer[c] \in {0, mine[c]}
LoopsEnd ==
  /\ proc = "none" => loop = "off" /\ \A c \in Coroutines : pc[c] = "idle"
  /\ loop = "cancelled" => shut
  /\ loop = "off" /\ ~shut => proc # "alive"
McpInv == McpTyped /\ Numbered /\ Answering /\ LoopsEnd /\ ResponsesMatch /\ NobodyWaitsOnADeadServer

\* At the start there is no server.
LEMMA McpStart == Init => McpInv
<1> SUFFICES ASSUME Init PROVE McpInv
  OBVIOUS
<1>1. McpTyped
  BY DEF Init, McpTyped, Places
<1>2. Numbered /\ Answering
  BY DEF Init, Numbered, Answering
<1>3. LoopsEnd /\ ResponsesMatch /\ NobodyWaitsOnADeadServer
  BY DEF Init, LoopsEnd, ResponsesMatch, NobodyWaitsOnADeadServer
<1> QED BY <1>1, <1>2, <1>3 DEF McpInv

\* The steps of a caller keep the invariant.
LEMMA CallerStep ==
  ASSUME McpInv, NEW c \in Coroutines,
         Call(c) \/ Write(c) \/ Drained(c) \/ Return(c) \/ TimedOut(c) \/ Again(c)
  PROVE  McpInv'
<1> USE DEF McpInv
<1>1. CASE Call(c)
  BY <1>1 DEF Call, At, McpTyped, Places, Numbered, Answering, LoopsEnd, ResponsesMatch,
     NobodyWaitsOnADeadServer, Settled
<1>2. CASE Write(c)
  <2>1. /\ pc' = [pc EXCEPT ![c] = "draining"] /\ calls' = calls + 1
        /\ rid' = [rid EXCEPT ![c] = calls + 1] /\ mine' = [mine EXCEPT ![c] = calls + 1]
        /\ answer' = [answer EXCEPT ![c] = 0] /\ pending' = pending \cup {calls + 1}
        /\ stdin' \subseteq stdin \cup {<<calls + 1, calls + 1>>}
        /\ proc' = proc /\ loop' = loop /\ stdout' = stdout /\ shut' = shut /\ pc[c] = "locking"
    BY <1>2 DEF Write, RequestId, At
  <2>2. McpTyped'
    BY <2>1 DEF McpTyped, Places
  <2>3. Numbered'
    <3>1. <<calls + 1, calls + 1>>[1] = calls + 1 /\ <<calls + 1, calls + 1>>[2] = calls + 1
          /\ calls + 1 \in Nat
      BY DEF McpTyped
    <3> QED BY <2>1, <3>1 DEF Numbered
  <2>4. Answering'
    BY <2>1 DEF McpTyped, Answering
  <2>5. LoopsEnd'
    BY <2>1 DEF LoopsEnd, McpTyped
  <2>6. ResponsesMatch'
    BY <2>1 DEF ResponsesMatch, McpTyped
  <2>7. NobodyWaitsOnADeadServer'
    <3>1. ASSUME NEW d \in Coroutines, pc'[d] = "waiting", loop = "off", ~shut PROVE rid'[d] \notin pending'
      <4>1. d # c /\ pc[d] = "waiting" /\ rid'[d] = rid[d]
        BY <2>1, <3>1 DEF McpTyped
      <4>2. rid[d] \notin pending
        BY <3>1, <4>1 DEF NobodyWaitsOnADeadServer, Settled
      <4>3. rid[d] # calls + 1
        BY DEF Answering, McpTyped
      <4> QED BY <2>1, <4>1, <4>2, <4>3
    <3> QED BY <2>1, <3>1 DEF NobodyWaitsOnADeadServer, Settled
  <2> QED BY <2>2, <2>3, <2>4, <2>5, <2>6, <2>7
<1>3. CASE Drained(c)
  BY <1>3 DEF Drained, At, McpTyped, Places, Numbered, Answering, LoopsEnd, ResponsesMatch,
     NobodyWaitsOnADeadServer, Settled
<1>4. CASE Return(c)
  BY <1>4 DEF Return, At, McpTyped, Places, Numbered, Answering, LoopsEnd, ResponsesMatch,
     NobodyWaitsOnADeadServer, Settled
<1>5. CASE TimedOut(c) \/ Again(c)
  BY <1>5 DEF TimedOut, Again, At, McpTyped, Places, Numbered, Answering, LoopsEnd, ResponsesMatch,
     NobodyWaitsOnADeadServer, Settled
<1> QED BY <1>1, <1>2, <1>3, <1>4, <1>5

\* So do the steps of the server, its read loop and its owner.
LEMMA ServerStep ==
  ASSUME McpInv,
         \/ Start \/ Close \/ Exit \/ EndLoop
         \/ \E r \in stdin : Respond(r)
         \/ \E r \in stdout : Dispatch(r)
  PROVE  McpInv'
<1> USE DEF McpInv
<1>1. CASE Start
  BY <1>1 DEF Start, At, McpTyped, Places, Numbered, Answering, LoopsEnd, ResponsesMatch,
     NobodyWaitsOnADeadServer, Settled, Coroutines
<1>2. CASE Close
  BY <1>2 DEF Close, McpTyped, Places, Numbered, Answering, LoopsEnd, ResponsesMatch,
     NobodyWaitsOnADeadServer, Settled
<1>3. CASE Exit
  BY <1>3 DEF Exit, McpTyped, Places, Numbered, Answering, LoopsEnd, ResponsesMatch,
     NobodyWaitsOnADeadServer, Settled
<1>4. CASE EndLoop
  BY <1>4 DEF EndLoop, FailPending, McpTyped, Places, Numbered, Answering, LoopsEnd, ResponsesMatch,
     NobodyWaitsOnADeadServer, Settled
<1>5. ASSUME NEW r \in stdin, Respond(r) PROVE McpInv'
  BY <1>5 DEF Respond, McpTyped, Places, Numbered, Answering, LoopsEnd, ResponsesMatch,
     NobodyWaitsOnADeadServer, Settled
<1>6. ASSUME NEW r \in stdout, Dispatch(r) PROVE McpInv'
  <2>1. /\ pc' = pc /\ rid' = rid /\ mine' = mine /\ calls' = calls /\ proc' = proc /\ loop' = loop
        /\ shut' = shut /\ stdin' = stdin /\ stdout' \subseteq stdout /\ loop = "on"
    BY <1>6 DEF Dispatch
  <2>2. \/ answer' = answer
        \/ answer' = [c \in Coroutines |->
                        IF r[1] \in pending /\ c \in Answered(r) THEN r[2] ELSE answer[c]]
    BY <1>6 DEF Dispatch
  <2>3. ASSUME NEW c \in Coroutines
        PROVE  /\ answer'[c] \in {0, mine[c]}
               /\ pc[c] = "answered" => answer'[c] = answer[c]
    <3>1. c \in Answered(r) => r[2] = mine[c] /\ pc[c] # "answered"
      BY DEF Answered, Numbered, Answering
    <3> QED BY <2>2, <3>1 DEF Answering
  <2>4. answer' \in [Coroutines -> Nat]
    BY <2>2 DEF McpTyped, Numbered
  <2> QED
    BY <2>1, <2>3, <2>4 DEF McpTyped, Numbered, Answering, LoopsEnd, ResponsesMatch,
       NobodyWaitsOnADeadServer, Settled
<1> QED BY <1>1, <1>2, <1>3, <1>4, <1>5, <1>6

-----------------------------------------------------------------------------
(* The client of an MCP server over HTTP.  While nothing was spoilt, one   *)
(* caller starts it with the one client that is open, or callers close it, *)
(* and none is.                                                            *)
Starting(c) == exchange[c].at = "start"
Closing(c) == exchange[c].at = "close"
HttpTyped ==
  /\ httpMade \in Nat /\ http \in Nat /\ httpStarted \in BOOLEAN /\ httpSpoilt \in BOOLEAN
  /\ exchange \in [Threads -> [at : {"none", "start", "post", "close"}, with : Nat]]
OneStarts ==
  \A c \in Threads : Starting(c) =>
    /\ ~httpStarted /\ http # 0 /\ opens = {http}
    /\ \A d \in Threads : ~Closing(d) /\ (Starting(d) => d = c)
ClosingCloses ==
  (\E c \in Threads : Closing(c)) => opens = {} /\ (httpStarted <=> http # 0)
HttpInv ==
  /\ HttpTyped
  /\ ~httpSpoilt => OneStarts /\ ClosingCloses
  /\ Gates!OneClientIsOpen

\* At the start no client was made.
LEMMA HttpStart == Gates!Init => HttpInv
<1> SUFFICES ASSUME Gates!Init PROVE HttpInv
  OBVIOUS
<1>1. HttpTyped
  BY DEF Gates!Init, Gates!NoExchange, HttpTyped
<1> QED
  BY <1>1 DEF Gates!Init, Gates!NoExchange, HttpInv, OneStarts, ClosingCloses, Starting, Closing,
     Gates!OneClientIsOpen

\* Starting, posting and closing keep the invariant.
LEMMA HttpStep ==
  ASSUME HttpInv, Gates!HttpNext
  PROVE  HttpInv'
<1>1. PICK c \in Threads :
        \/ Gates!StartBegins(c) \/ Gates!StartFails(c) \/ Gates!StartEnds(c)
        \/ Gates!RequestBegins(c) \/ Gates!RequestEnds(c)
        \/ Gates!CloseClient(c) \/ Gates!ClientClosed(c)
  BY DEF Gates!HttpNext
<1> USE DEF HttpInv, Gates!Awaits
<1> DEFINE Goes(p, w) == exchange' = [exchange EXCEPT ![c] = [at |-> p, with |-> w]]
<1>2. ASSUME NEW p \in {"none", "start", "post", "close"}, NEW w \in Nat, Goes(p, w)
      PROVE  /\ exchange' \in [Threads -> [at : {"none", "start", "post", "close"}, with : Nat]]
             /\ exchange'[c].at = p
             /\ \A d \in Threads \ {c} : exchange'[d].at = exchange[d].at
  BY <1>2 DEF HttpTyped
<1>3. CASE Gates!StartBegins(c)
  <2>1. /\ exchange[c].at = "none" /\ ~httpStarted /\ httpMade' = httpMade + 1 /\ http' = httpMade + 1
        /\ opens' = opens \cup {httpMade + 1} /\ Goes("start", httpMade + 1) /\ httpStarted' = httpStarted
        /\ httpSpoilt' = (httpSpoilt \/ \E d \in Threads : exchange[d].at \in {"start", "close"})
    BY <1>3 DEF Gates!StartBegins, Gates!Await
  <2>2. httpMade + 1 \in Nat /\ httpMade + 1 # 0
    BY DEF HttpTyped
  <2>3. /\ exchange' \in [Threads -> [at : {"none", "start", "post", "close"}, with : Nat]]
        /\ exchange'[c].at = "start"
        /\ \A d \in Threads \ {c} : exchange'[d].at = exchange[d].at
    BY <1>2, <2>1, <2>2
  <2>4. HttpTyped'
    BY <2>1, <2>2, <2>3 DEF HttpTyped
  <2>5. ASSUME ~httpSpoilt' PROVE OneStarts' /\ ClosingCloses'
    <3>1. ~httpSpoilt /\ \A d \in Threads : ~Starting(d) /\ ~Closing(d)
      BY <2>1, <2>5 DEF Starting, Closing
    <3>2. opens = {}
      BY <2>1, <3>1 DEF Gates!OneClientIsOpen, Starting, Closing
    <3> QED BY <2>1, <2>2, <2>3, <3>1, <3>2 DEF OneStarts, ClosingCloses, Starting, Closing
  <2>6. Gates!OneClientIsOpen'
    BY <2>3 DEF Gates!OneClientIsOpen
  <2> QED BY <2>4, <2>5, <2>6
<1>4. CASE Gates!StartFails(c)
  BY <1>2, <1>4 DEF Gates!StartFails, Gates!Await, HttpTyped, Gates!OneClientIsOpen
<1>5. CASE Gates!StartEnds(c)
  <2>1. /\ exchange[c].at = "start" /\ httpStarted' = TRUE /\ http' = http /\ opens' = opens
        /\ httpMade' = httpMade /\ httpSpoilt' = httpSpoilt
        /\ \E p \in {"none", "post"} : \E w \in Nat : Goes(p, w)
    BY <1>5 DEF Gates!StartEnds, Gates!Await, HttpTyped
  <2>2. PICK p \in {"none", "post"}, w \in Nat : Goes(p, w)
    BY <2>1
  <2>3. /\ exchange' \in [Threads -> [at : {"none", "start", "post", "close"}, with : Nat]]
        /\ exchange'[c].at \in {"none", "post"}
        /\ \A d \in Threads \ {c} : exchange'[d].at = exchange[d].at
    BY <1>2, <2>2
  <2>4. HttpTyped'
    BY <2>1, <2>3 DEF HttpTyped
  <2>5. ASSUME ~httpSpoilt'
        PROVE  /\ http # 0 /\ opens = {http}
               /\ \A d \in Threads : exchange'[d].at \notin {"start", "close"}
    <3>1. OneStarts /\ Starting(c)
      BY <2>1, <2>5 DEF Starting
    <3> QED BY <2>3, <3>1 DEF OneStarts, Starting, Closing
  <2> QED BY <2>1, <2>4, <2>5 DEF OneStarts, ClosingCloses, Starting, Closing, Gates!OneClientIsOpen
<1>6. CASE Gates!RequestBegins(c) \/ Gates!RequestEnds(c)
  <2>1. /\ exchange[c].at \in {"none", "post"} /\ httpStarted' = httpStarted /\ http' = http /\ opens' = opens
        /\ httpMade' = httpMade /\ httpSpoilt' = httpSpoilt
        /\ \E p \in {"none", "post"} : \E w \in Nat : Goes(p, w)
    BY <1>6 DEF Gates!RequestBegins, Gates!RequestEnds, Gates!Await, HttpTyped
  <2>2. PICK p \in {"none", "post"}, w \in Nat : Goes(p, w)
    BY <2>1
  <2>3. /\ exchange' \in [Threads -> [at : {"none", "start", "post", "close"}, with : Nat]]
        /\ exchange'[c].at \in {"none", "post"}
        /\ \A d \in Threads \ {c} : exchange'[d].at = exchange[d].at
    BY <1>2, <2>2
  <2>4. HttpTyped'
    BY <2>1, <2>3 DEF HttpTyped
  <2>5. \A d \in Threads : (Starting(d)' <=> Starting(d)) /\ (Closing(d)' <=> Closing(d))
    BY <2>1, <2>3 DEF Starting, Closing
  <2>6. Gates!OneClientIsOpen'
    BY <2>1, <2>5 DEF Gates!OneClientIsOpen, Starting, Closing
  <2> QED BY <2>1, <2>4, <2>5, <2>6 DEF OneStarts, ClosingCloses
<1>7. CASE Gates!CloseClient(c)
  <2>1. /\ exchange[c].at = "none" /\ httpMade' = httpMade /\ http' = http
        /\ httpSpoilt' = (httpSpoilt \/ \E d \in Threads : exchange[d].at = "start")
    BY <1>7 DEF Gates!CloseClient, Gates!Await
  <2>2. CASE http = 0
    <3>1. httpStarted' = FALSE /\ opens' = opens /\ exchange' = exchange
      BY <1>7, <2>2 DEF Gates!CloseClient
    <3>2. HttpTyped'
      BY <2>1, <3>1 DEF HttpTyped
    <3> QED
      BY <2>1, <2>2, <3>1, <3>2 DEF OneStarts, ClosingCloses, Starting, Closing, Gates!OneClientIsOpen
  <2>3. CASE http # 0
    <3>1. /\ httpStarted' = httpStarted /\ opens' = opens \ {http} /\ Goes("close", http)
      BY <1>7, <2>3 DEF Gates!CloseClient, Gates!Await
    <3>2. /\ exchange' \in [Threads -> [at : {"none", "start", "post", "close"}, with : Nat]]
          /\ exchange'[c].at = "close"
          /\ \A d \in Threads \ {c} : exchange'[d].at = exchange[d].at
      BY <1>2, <3>1 DEF HttpTyped
    <3>3. HttpTyped'
      BY <2>1, <3>1, <3>2 DEF HttpTyped
    <3>4. ASSUME ~httpSpoilt' PROVE OneStarts' /\ ClosingCloses'
      <4>1. ~httpSpoilt /\ \A d \in Threads : ~Starting(d)
        BY <2>1, <3>4 DEF Starting
      <4>2. \A d \in Threads : ~Starting(d)'
        BY <3>2, <4>1 DEF Starting
      <4>3. opens \ {http} = {} /\ httpStarted
        BY <2>3, <4>1 DEF ClosingCloses, Starting, Closing, Gates!OneClientIsOpen
      <4> QED BY <2>1, <2>3, <3>1, <4>2, <4>3 DEF OneStarts, ClosingCloses
    <3>5. Gates!OneClientIsOpen'
      BY <3>2 DEF Gates!OneClientIsOpen
    <3> QED BY <3>3, <3>4, <3>5
  <2> QED BY <2>2, <2>3
<1>8. CASE Gates!ClientClosed(c)
  <2>1. /\ exchange[c].at = "close" /\ http' = 0 /\ httpStarted' = FALSE /\ opens' = opens
        /\ httpMade' = httpMade /\ httpSpoilt' = httpSpoilt /\ Goes("none", 0)
    BY <1>8 DEF Gates!ClientClosed, Gates!Await
  <2>2. /\ exchange' \in [Threads -> [at : {"none", "start", "post", "close"}, with : Nat]]
        /\ exchange'[c].at = "none"
        /\ \A d \in Threads \ {c} : exchange'[d].at = exchange[d].at
    BY <1>2, <2>1
  <2>3. HttpTyped'
    BY <2>1, <2>2 DEF HttpTyped
  <2>4. ASSUME ~httpSpoilt' PROVE opens = {} /\ \A d \in Threads : ~Starting(d) /\ ~Starting(d)'
    <3>1. opens = {} /\ \A d \in Threads : ~Starting(d)
      BY <2>1, <2>4 DEF OneStarts, ClosingCloses, Starting, Closing
    <3> QED BY <2>2, <3>1 DEF Starting
  <2> QED BY <2>1, <2>3, <2>4 DEF OneStarts, ClosingCloses, Gates!OneClientIsOpen
<1> QED BY <1>1, <1>3, <1>4, <1>5, <1>6, <1>7, <1>8

-----------------------------------------------------------------------------
(* Mail of a team.  Only files of messages that were sent are listed, and  *)
(* a message whose file is about to be unlinked was read, misread or taken *)
(* by another reader.                                                      *)
AgentPlaces == {"idle", "sending", "reading", "consuming", "dead"}
MailTyped ==
  /\ mail \in [Messages -> {"unsent", "emptied", "there", "gone"}] /\ agent \in [Agents -> AgentPlaces]
  /\ hand \in [Agents -> SUBSET Messages] /\ listing \in [Agents -> SUBSET Messages]
  /\ batch \in [Agents -> SUBSET Messages] /\ received \in [Agents -> SUBSET Messages]
ListedWasSent == \A a \in Agents : \A m \in listing[a] : mail[m] # "unsent"
ConsumedWasRead ==
  \A a \in Agents : agent[a] = "consuming" =>
    \A m \in hand[a] : m \in misread \cup batch[a] \/ mail[m] = "gone"
MailInv == MailTyped /\ ListedWasSent /\ ConsumedWasRead /\ Team!WrittenMailArrives

\* At the start no message is sent.
LEMMA TeamMailStart == Team!Init => MailInv
<1> SUFFICES ASSUME Team!Init PROVE MailInv
  OBVIOUS
<1>1. MailTyped
  BY DEF Team!Init, MailTyped, AgentPlaces
<1> QED
  BY <1>1 DEF Team!Init, MailInv, ListedWasSent, ConsumedWasRead, Team!WrittenMailArrives

\* Sending, listing, reading, consuming and dying keep the invariant.
LEMMA TeamMailStep ==
  ASSUME MailInv, Team!MailNext
  PROVE  MailInv'
<1> USE DEF MailInv, Team!Goes
<1>1. ASSUME NEW a \in Agents, NEW m \in Messages, Team!Send(a, m) PROVE MailInv'
  BY <1>1 DEF Team!Send, MailTyped, AgentPlaces, ListedWasSent, ConsumedWasRead, Team!WrittenMailArrives
<1>2. ASSUME NEW a \in Agents, NEW m \in Messages, Team!Read(a, m) PROVE MailInv'
  <2>1. /\ m \in listing[a] /\ agent' = [agent EXCEPT ![a] = "consuming"] /\ mail' = mail
        /\ batch' = [batch EXCEPT ![a] = Team!Taken(a, m)] /\ received' = received
        /\ hand' = [hand EXCEPT ![a] = {m}] /\ listing' = [listing EXCEPT ![a] = @ \ {m}]
        /\ misread' = IF mail[m] = "emptied" THEN misread \cup {m} ELSE misread
    BY <1>2 DEF Team!Read
  <2>2. /\ Team!Taken(a, m) \in SUBSET Messages /\ batch[a] \subseteq Team!Taken(a, m)
        /\ mail[m] = "there" => m \in Team!Taken(a, m)
    BY DEF Team!Taken, MailTyped, AgentPlaces
  <2>3. MailTyped'
    BY <2>1, <2>2 DEF MailTyped, AgentPlaces
  <2>4. ListedWasSent'
    BY <2>1 DEF ListedWasSent, MailTyped, AgentPlaces
  <2>5. ConsumedWasRead'
    <3>1. mail[m] \in {"emptied", "there", "gone"}
      BY <2>1 DEF ListedWasSent, MailTyped, AgentPlaces
    <3>2. \A b \in Agents \ {a} : agent'[b] = agent[b] /\ batch'[b] = batch[b] /\ hand'[b] = hand[b]
      BY <2>1 DEF MailTyped, AgentPlaces
    <3>3. \A n \in hand'[a] : n \in misread' \cup batch'[a] \/ mail'[n] = "gone"
      BY <2>1, <2>2, <3>1 DEF MailTyped, AgentPlaces
    <3>4. misread \subseteq misread'
      BY <2>1
    <3> QED BY <2>1, <3>2, <3>3, <3>4 DEF ConsumedWasRead
  <2>6. Team!WrittenMailArrives'
    <3>1. misread \subseteq misread' /\ \A b \in Agents : batch[b] \subseteq batch'[b]
      BY <2>1, <2>2 DEF MailTyped, AgentPlaces
    <3> QED BY <2>1, <3>1 DEF Team!WrittenMailArrives
  <2> QED BY <2>3, <2>4, <2>5, <2>6
<1>3. ASSUME NEW a \in Agents, Team!Sent(a) PROVE MailInv'
  BY <1>3 DEF Team!Sent, MailTyped, AgentPlaces, ListedWasSent, ConsumedWasRead, Team!WrittenMailArrives
<1>4. ASSUME NEW a \in Agents, Team!List(a) PROVE MailInv'
  BY <1>4 DEF Team!List, Team!InInbox, MailTyped, AgentPlaces, ListedWasSent,
     ConsumedWasRead, Team!WrittenMailArrives
<1>5. ASSUME NEW a \in Agents, Team!Consume(a) PROVE MailInv'
  <2>1. /\ mail' = [m \in Messages |-> IF m \in hand[a] THEN "gone" ELSE mail[m]]
        /\ hand' = [hand EXCEPT ![a] = {}] /\ misread' = misread /\ agent[a] = "consuming"
        /\ \/ /\ agent' = [agent EXCEPT ![a] = "idle"] /\ batch' = [batch EXCEPT ![a] = {}]
              /\ received' = [received EXCEPT ![a] = @ \cup batch[a]]
              /\ listing' = [listing EXCEPT ![a] = {}]
           \/ /\ agent' = [agent EXCEPT ![a] = "reading"] /\ received' = received
              /\ batch' = batch /\ listing' = listing
    BY <1>5 DEF Team!Consume
  <2>2. MailTyped'
    BY <2>1 DEF MailTyped, AgentPlaces
  <2>3. ListedWasSent'
    BY <2>1 DEF ListedWasSent, MailTyped, AgentPlaces
  <2>4. ConsumedWasRead'
    BY <2>1 DEF ConsumedWasRead, MailTyped, AgentPlaces
  <2>5. \A b \in Agents : batch[b] \cup received[b] \subseteq batch'[b] \cup received'[b]
    BY <2>1 DEF MailTyped, AgentPlaces
  <2>6. ASSUME NEW m \in Messages \ misread, mail'[m] = "gone"
        PROVE  \E b \in Agents : m \in batch'[b] \cup received'[b]
    <3>1. \E b \in Agents : m \in batch[b] \cup received[b]
      BY <2>1, <2>6 DEF ConsumedWasRead, Team!WrittenMailArrives
    <3> QED BY <2>5, <3>1
  <2> QED BY <2>1, <2>2, <2>3, <2>4, <2>6 DEF Team!WrittenMailArrives
<1>6. ASSUME NEW a \in Agents, Team!Crash(a) PROVE MailInv'
  BY <1>6 DEF Team!Crash, Team!mailVars, MailTyped, AgentPlaces, ListedWasSent,
     ConsumedWasRead, Team!WrittenMailArrives
<1> QED BY <1>1, <1>2, <1>3, <1>4, <1>5, <1>6 DEF Team!MailNext

-----------------------------------------------------------------------------
(* Channels.  Below each message that was given to a caller, or is on its  *)
(* way to one, all were given, are on that way too, or were left out of a  *)
(* page by Slack; so they are below the cursors.                           *)
Passed(h) == handed[h] \cup (IF h = "slack" THEN skipped ELSE {})
ChannelTyped ==
  /\ posted \in Nat /\ confirmed \in Nat /\ position \in [Gates!Channels -> Nat]
  /\ handed \in [Gates!Channels -> SUBSET Nat] /\ skipped \in SUBSET Nat
  /\ poll \in [Threads -> [on : Gates!Channels \cup {"none"}, got : SUBSET Nat]]
GotIsPosted == \A c \in Threads : poll[c].got \subseteq 1..posted
HandedInOrder ==
  \A h \in Gates!Channels :
    /\ 1..position[h] \subseteq Passed(h)
    /\ \A i \in handed[h] : 1..i \subseteq Passed(h)
GotInOrder ==
  \A c \in Threads : \A h \in Gates!Channels : poll[c].on = h =>
    \A i \in poll[c].got : 1..i \subseteq Passed(h) \cup poll[c].got
ChannelInv ==
  ChannelTyped /\ GotIsPosted /\ HandedInOrder /\ GotInOrder /\ 1..confirmed \subseteq handed["telegram"]

\* It is what Max takes of it.
LEMMA GreatestNumber ==
  ASSUME NEW n \in Nat, NEW S \in SUBSET (0..n), S # {}
  PROVE  Gates!Max(S) \in S /\ \A m \in S : Gates!Max(S) >= m
<1>1. \E x \in S : \A y \in S : x >= y
  BY HasGreatest
<1> QED BY <1>1 DEF Gates!Max

\* The instance's Cardinality is Cardinality.
LEMMA GatesCount == \A S : Gates!Cardinality(S) = Cardinality(S)
  BY DEF Gates!Cardinality, Cardinality

\* What is older than one of the oldest is among them.
LEMMA OldestIsPrefix ==
  ASSUME NEW a \in Nat, NEW b \in Nat, NEW i \in Gates!Oldest(a + 1..b), NEW j \in a + 1..i
  PROVE  j \in Gates!Oldest(a + 1..b)
<1> DEFINE R == a + 1..b
           Before(k) == {x \in R : x < k}
<1>1. i \in R /\ Cardinality(Before(i)) < PageSize /\ j \in R /\ j <= i
  BY GatesCount DEF Gates!Oldest
<1>2. Before(j) \subseteq Before(i) /\ Before(i) \subseteq R
  BY <1>1
<1>3. IsFiniteSet(R)
  BY FS_Interval
<1>4. Cardinality(Before(j)) <= Cardinality(Before(i)) /\ Cardinality(Before(j)) \in Nat
      /\ Cardinality(Before(i)) \in Nat
  BY <1>2, <1>3, FS_Subset, FS_CardinalityType
<1>5. Cardinality(Before(j)) < PageSize
  BY <1>1, <1>4, GatesAssumption DEF Gates!LimitAssumption
<1> QED BY <1>1, <1>5, GatesCount DEF Gates!Oldest

\* At the start nothing was posted.
LEMMA ChannelStart == Gates!Init => ChannelInv
<1> SUFFICES ASSUME Gates!Init PROVE ChannelInv
  OBVIOUS
<1>1. ChannelTyped
  BY DEF Gates!Init, Gates!NoPoll, Gates!Channels, ChannelTyped
<1>2. \A h \in Gates!Channels : position[h] = 0 /\ handed[h] = {}
  BY DEF Gates!Init
<1>4. \A c \in Threads : poll[c].on = "none" /\ poll[c].got = {}
  BY DEF Gates!Init, Gates!NoPoll
<1>5. confirmed = 0
  BY DEF Gates!Init
<1>6. 1..0 = {}
  OBVIOUS
<1>3. \A h \in Gates!Channels : h # "none"
  BY DEF Gates!Channels
<1> QED
  BY <1>1, <1>2, <1>3, <1>4, <1>5, <1>6 DEF ChannelInv, GotIsPosted, HandedInOrder, GotInOrder

\* A call that goes out, with the messages that will answer it.
LEMMA PollStarts ==
  ASSUME ChannelInv, NEW c \in Threads, NEW h \in Gates!Channels, NEW G \in SUBSET (1..posted),
         poll' = [poll EXCEPT ![c] = [on |-> h, got |-> G]],
         UNCHANGED <<posted, position, handed>>, skipped' \in SUBSET Nat, skipped \subseteq skipped',
         \A i \in G : 1..i \subseteq Passed(h)' \cup G,
         confirmed' \in Nat, 1..confirmed' \subseteq handed["telegram"]
  PROVE  ChannelInv'
<1> USE DEF ChannelInv
<1>1. \A g \in Gates!Channels : Passed(g) \subseteq Passed(g)'
  BY DEF Passed
<1>2. /\ [on |-> h, got |-> G].on = h /\ [on |-> h, got |-> G].got = G
      /\ [on |-> h, got |-> G] \in [on : Gates!Channels \cup {"none"}, got : SUBSET Nat]
  OBVIOUS
<1>3. poll'[c].on = h /\ poll'[c].got = G /\ \A d \in Threads \ {c} : poll'[d] = poll[d]
  BY <1>2 DEF ChannelTyped
<1>4. ChannelTyped'
  BY <1>2 DEF ChannelTyped
<1>5. GotIsPosted'
  BY <1>3 DEF GotIsPosted
<1>6. HandedInOrder'
  BY <1>1 DEF HandedInOrder
<1>7. GotInOrder'
  BY <1>1, <1>3 DEF GotInOrder
<1> QED BY <1>4, <1>5, <1>6, <1>7

\* An answer that arrives and moves the cursor.
LEMMA PollAnswers ==
  ASSUME ChannelInv, NEW c \in Threads, Gates!PollEnds(c)
  PROVE  ChannelInv'
<1> USE DEF ChannelInv
<1>0. PICK h \in Gates!Channels, G \in SUBSET Nat :
        poll[c].on = h /\ poll[c].got = G /\ G \subseteq 1..posted
  BY DEF Gates!PollEnds, ChannelTyped, GotIsPosted
<1>1. h \in Gates!Channels /\ G \in SUBSET Nat /\ G \subseteq 1..posted
  BY <1>0
<1>2. \A i \in G : 1..i \subseteq Passed(h) \cup G
  BY <1>0 DEF GotInOrder
<1>3. poll' = [poll EXCEPT ![c] = Gates!NoPoll] /\ handed' = [handed EXCEPT ![h] = @ \cup G]
      /\ UNCHANGED <<posted, confirmed, skipped>>
  BY <1>0 DEF Gates!PollEnds
<1>4. Gates!NoPoll.on = "none" /\ Gates!NoPoll.got = {}
      /\ Gates!NoPoll \in [on : Gates!Channels \cup {"none"}, got : SUBSET Nat]
  BY DEF Gates!NoPoll
<1>5. poll'[c].on = "none" /\ poll'[c].got = {} /\ \A d \in Threads \ {c} : poll'[d] = poll[d]
  BY <1>3, <1>4 DEF ChannelTyped
<1>6. handed'[h] = handed[h] \cup G /\ \A g \in Gates!Channels \ {h} : handed'[g] = handed[g]
  BY <1>1, <1>3 DEF ChannelTyped
<1>7. Passed(h)' = Passed(h) \cup G /\ \A g \in Gates!Channels : Passed(g) \subseteq Passed(g)'
  BY <1>3, <1>6 DEF Passed
<1>8. CASE G = {}
  <2>1. position' = position
    BY <1>0, <1>8 DEF Gates!PollEnds
  <2>2. ChannelTyped'
    BY <1>1, <1>3, <1>4, <2>1 DEF ChannelTyped
  <2>3. GotIsPosted'
    BY <1>3, <1>5 DEF GotIsPosted
  <2>4. HandedInOrder'
    BY <1>2, <1>6, <1>7, <1>8, <2>1 DEF HandedInOrder
  <2>5. GotInOrder'
    BY <1>5, <1>7 DEF GotInOrder, Gates!Channels
  <2>6. handed["telegram"] \subseteq handed'["telegram"]
    BY <1>6 DEF Gates!Channels
  <2> QED BY <1>3, <2>2, <2>3, <2>4, <2>5, <2>6
<1>9. CASE G # {}
  <2>1. PICK m \in G : position' = [position EXCEPT ![h] = m]
    <3>1. G \in SUBSET (0..posted)
      BY <1>1
    <3>2. Gates!Max(G) \in G
      BY <1>9, <3>1, GreatestNumber DEF ChannelTyped
    <3> QED BY <1>0, <1>9, <3>2 DEF Gates!PollEnds, Gates!Moved
  <2>2. ChannelTyped'
    BY <1>1, <1>3, <1>4, <2>1 DEF ChannelTyped
  <2>3. GotIsPosted'
    BY <1>3, <1>5 DEF GotIsPosted
  <2>4. position'[h] = m /\ \A g \in Gates!Channels \ {h} : position'[g] = position[g]
    BY <1>1, <2>1 DEF ChannelTyped
  <2>5. 1..position'[h] \subseteq Passed(h)' /\ \A i \in handed'[h] : 1..i \subseteq Passed(h)'
    BY <1>1, <1>2, <1>6, <1>7, <2>1, <2>4 DEF HandedInOrder
  <2>6. HandedInOrder'
    BY <1>6, <1>7, <2>4, <2>5 DEF HandedInOrder
  <2>7. GotInOrder'
    BY <1>5, <1>7 DEF GotInOrder, Gates!Channels
  <2>8. handed["telegram"] \subseteq handed'["telegram"]
    BY <1>6 DEF Gates!Channels
  <2> QED BY <1>3, <2>2, <2>3, <2>6, <2>7, <2>8
<1> QED BY <1>8, <1>9

\* Every step of a channel keeps the invariant.
LEMMA ChannelStep ==
  ASSUME ChannelInv, Gates!ChannelNext
  PROVE  ChannelInv'
<1> USE DEF ChannelInv
<1>0. "telegram" \in Gates!Channels /\ "slack" \in Gates!Channels
  BY DEF Gates!Channels
<1>1. CASE Gates!Post
  <2>1. posted' = posted + 1 /\ UNCHANGED <<confirmed, position, poll, handed, skipped>>
    BY <1>1 DEF Gates!Post
  <2>2. posted' \in Nat /\ 1..posted \subseteq 1..posted'
    BY <2>1 DEF ChannelTyped
  <2> QED
    BY <2>1, <2>2 DEF ChannelTyped, GotIsPosted, HandedInOrder, GotInOrder, Passed
<1>2. CASE Gates!AdapterRestarts
  <2>1. /\ position' = [h \in Gates!Channels |-> 0] /\ poll' = [c \in Threads |-> Gates!NoPoll]
        /\ UNCHANGED <<posted, confirmed, handed, skipped>>
    BY <1>2 DEF Gates!AdapterRestarts
  <2>2. Gates!NoPoll.on = "none" /\ Gates!NoPoll.got = {} /\ 1..0 = {}
        /\ Gates!NoPoll \in [on : Gates!Channels \cup {"none"}, got : SUBSET Nat]
    BY DEF Gates!NoPoll
  <2>3. ChannelTyped'
    BY <2>1, <2>2 DEF ChannelTyped
  <2>4. GotIsPosted' /\ GotInOrder'
    BY <2>1, <2>2 DEF GotIsPosted, GotInOrder
  <2>5. HandedInOrder'
    BY <2>1, <2>2 DEF HandedInOrder, Passed
  <2> QED BY <2>1, <2>3, <2>4, <2>5
<1>3. ASSUME NEW c \in Threads, Gates!PollTelegram(c) PROVE ChannelInv'
  <2> DEFINE M == Gates!Max({confirmed, position["telegram"]})
             G == Gates!Oldest(M + 1..posted)
  <2>1. confirmed' = M /\ poll' = [poll EXCEPT ![c] = [on |-> "telegram", got |-> G]]
        /\ UNCHANGED <<posted, position, handed, skipped>>
    BY <1>3 DEF Gates!PollTelegram
  <2>2. M \in {confirmed, position["telegram"]}
    <3>1. confirmed >= position["telegram"] \/ position["telegram"] >= confirmed
      BY <1>0 DEF ChannelTyped
    <3>2. \E x \in {confirmed, position["telegram"]} : \A y \in {confirmed, position["telegram"]} : x >= y
      BY <1>0, <3>1 DEF ChannelTyped
    <3> QED BY <3>2 DEF Gates!Max
  <2>3. M \in Nat /\ 1..M \subseteq handed["telegram"]
    BY <1>0, <2>2 DEF ChannelTyped, HandedInOrder, Passed
  <2> HIDE DEF M
  <2>4. G \in SUBSET (1..posted)
    BY <2>3 DEF Gates!Oldest, ChannelTyped
  <2>5. ASSUME NEW i \in G PROVE 1..i \subseteq Passed("telegram") \cup G
    <3>1. \A j \in M + 1..i : j \in G
      BY <2>3, OldestIsPrefix DEF ChannelTyped
    <3>2. \A j \in 1..i : j \in 1..M \/ j \in M + 1..i
      BY <2>3, <2>4
    <3> QED BY <2>3, <3>1, <3>2 DEF Passed
  <2>6. \A i \in G : 1..i \subseteq Passed("telegram")' \cup G
    BY <2>1, <2>5 DEF Passed
  <2> HIDE DEF G
  <2> QED BY <1>0, <2>1, <2>3, <2>4, <2>6, PollStarts DEF ChannelTyped
<1>4. ASSUME NEW c \in Threads, Gates!PollSlack(c) PROVE ChannelInv'
  <2> DEFINE range == position["slack"] + 1..posted
  <2>1. PICK G \in {Gates!Oldest(range), Gates!Newest(range)} :
          /\ poll' = [poll EXCEPT ![c] = [on |-> "slack", got |-> G]]
          /\ skipped' = skipped \cup {i \in range \ G : G # {} /\ i < Gates!Max(G)}
    BY <1>4 DEF Gates!PollSlack
  <2>2. UNCHANGED <<posted, position, handed, confirmed>>
    BY <1>4 DEF Gates!PollSlack
  <2>3. position["slack"] \in Nat /\ G \subseteq range
    BY <1>0, <2>1 DEF Gates!Oldest, Gates!Newest, ChannelTyped
  <2>4. G \in SUBSET (1..posted) /\ G \in SUBSET (0..posted) /\ skipped' \in SUBSET Nat
    <3>1. range \subseteq 1..posted /\ range \subseteq Nat
      BY <2>3 DEF ChannelTyped
    <3>2. skipped \subseteq Nat
      BY DEF ChannelTyped
    <3>3. 1..posted \subseteq 0..posted
      BY DEF ChannelTyped
    <3> HIDE DEF range
    <3> QED BY <2>1, <2>3, <3>1, <3>2, <3>3
  <2>5. ASSUME NEW i \in G, NEW j \in 1..i PROVE j \in Passed("slack")' \cup G
    <3>1. CASE j \in 1..position["slack"]
      BY <1>0, <2>1, <2>2, <3>1 DEF Passed, HandedInOrder
    <3>2. CASE j \notin 1..position["slack"] /\ j \notin G
      <4>1. Gates!Max(G) \in Nat /\ Gates!Max(G) >= i /\ Gates!Max(G) \in G
        <5>1. posted \in Nat /\ G # {}
          BY DEF ChannelTyped
        <5>2. Gates!Max(G) \in G /\ Gates!Max(G) >= i
          <6>1. Gates!Max(G) \in G /\ \A m \in G : Gates!Max(G) >= m
            BY <2>4, <5>1, GreatestNumber
          <6> QED BY <6>1
        <5>3. \A x \in G : x \in Nat
          BY <2>4, <5>1
        <5> QED BY <5>2, <5>3
      <4>2. j \in range /\ j < Gates!Max(G)
        <5>1. i \in 1..posted /\ j \in 1..posted /\ posted \in Nat
          BY <2>4 DEF ChannelTyped
        <5> QED BY <2>3, <3>2, <4>1, <5>1
      <4> QED BY <2>1, <3>2, <4>2 DEF Passed
    <3> QED BY <3>1, <3>2
  <2> QED BY <1>0, <2>1, <2>2, <2>4, <2>5, PollStarts DEF ChannelTyped
<1>5. ASSUME NEW c \in Threads, Gates!PollEnds(c) PROVE ChannelInv'
  BY <1>5, PollAnswers
<1>6. ASSUME NEW c \in Threads, Gates!PollLost(c) PROVE ChannelInv'
  <2>1. /\ poll' = [poll EXCEPT ![c] = Gates!NoPoll]
        /\ UNCHANGED <<posted, confirmed, position, handed, skipped>>
    BY <1>6 DEF Gates!PollLost
  <2>2. Gates!NoPoll.on = "none" /\ Gates!NoPoll.got = {}
        /\ Gates!NoPoll \in [on : Gates!Channels \cup {"none"}, got : SUBSET Nat]
    BY DEF Gates!NoPoll
  <2>3. poll'[c].on = "none" /\ poll'[c].got = {} /\ \A d \in Threads \ {c} : poll'[d] = poll[d]
    BY <2>1, <2>2 DEF ChannelTyped
  <2>4. ChannelTyped'
    BY <2>1, <2>2 DEF ChannelTyped
  <2>5. GotIsPosted' /\ GotInOrder'
    BY <2>1, <2>3 DEF GotIsPosted, GotInOrder, Passed, Gates!Channels
  <2> QED BY <2>1, <2>4, <2>5 DEF HandedInOrder, Passed
<1>7. ASSUME NEW h \in Gates!Channels, NEW i \in handed[h], Gates!Ack(h, i) PROVE ChannelInv'
  <2>1. i \in Nat /\ UNCHANGED <<posted, confirmed, poll, handed, skipped>>
    BY <1>7 DEF Gates!Ack, ChannelTyped
  <2>2. PICK n \in {i, position[h]} : position' = [position EXCEPT ![h] = n]
    <3>1. CASE h = "telegram"
      <4>1. i >= position[h] \/ position[h] >= i
        BY <2>1 DEF ChannelTyped
      <4>2. \E x \in {position[h], i} : \A y \in {position[h], i} : x >= y
        BY <2>1, <4>1 DEF ChannelTyped
      <4>3. Gates!Max({position[h], i}) \in {i, position[h]}
        BY <4>2 DEF Gates!Max
      <4> QED BY <1>7, <3>1, <4>3 DEF Gates!Ack
    <3>2. CASE h # "telegram"
      BY <1>7, <3>2 DEF Gates!Ack
    <3> QED BY <3>1, <3>2
  <2>3. ChannelTyped'
    BY <2>1, <2>2 DEF ChannelTyped
  <2>4. HandedInOrder'
    BY <2>1, <2>2 DEF HandedInOrder, Passed, ChannelTyped
  <2> QED BY <2>1, <2>3, <2>4 DEF GotIsPosted, GotInOrder, Passed
<1> QED BY <1>1, <1>2, <1>3, <1>4, <1>5, <1>6, <1>7 DEF Gates!ChannelNext

\* Nothing below the cursors was passed over.
LEMMA ChannelsHand == ChannelInv => Gates!MessagesAreHanded
  BY DEF ChannelInv, HandedInOrder, Passed, Gates!Channels, Gates!MessagesAreHanded

-----------------------------------------------------------------------------
(* The in-process buses.  Threads hand out different events, and the queue *)
(* of a handle holds later events than it gave out, in order, with the     *)
(* mark of its end behind them.                                            *)
Told(h, e) == \E i \in DOMAIN got[h] : got[h][i] = e
ToTell(h, e) == \E t \in Threads : h \in publisher[t].left /\ publisher[t].event = e
InLine(h, e) == e # 0 /\ \E i \in DOMAIN line[h] : line[h][i] = e
Once(h) == \A i, j \in DOMAIN got[h] : got[h][i] = got[h][j] => i = j

GivenTyped ==
  /\ Len(events) \in Nat /\ got \in [Handlers -> Seq(Nat)] /\ due \in [Handlers -> SUBSET Nat]
  /\ \A h \in Handlers : \A e \in due[h] : e \in 1..Len(events)
PublisherTyped == publisher \in [Threads -> [event : Nat, left : SUBSET Handlers]]
HandedOut ==
  /\ \A t \in Threads : publisher[t].event <= Len(events) /\ (publisher[t].event = 0 => publisher[t].left = {})
  /\ \A t, u \in Threads : publisher[t].event = publisher[u].event => t = u \/ publisher[t].event = 0
  /\ \A h \in Handlers :
       /\ Once(h)
       /\ \A e \in Nat : Told(h, e) \/ ToTell(h, e) <=> e \in due[h]
       /\ \A e \in Nat : ~(Told(h, e) /\ ToTell(h, e))
NoHandles == \A h \in Handlers : handles[h] = "none" /\ line[h] = << >>
EventsInv == GivenTyped /\ PublisherTyped /\ HandedOut /\ NoHandles

LineTyped ==
  line \in [Handlers -> Seq(Nat)] /\ handles \in [Handlers -> {"none", "open", "closed"}]
Rising(s) == \A i, j \in DOMAIN s : i < j => s[i] < s[j]
LineInOrder(h) ==
  /\ \A i, j \in DOMAIN line[h] : i < j => line[h][i] # 0 /\ (line[h][j] = 0 \/ line[h][i] < line[h][j])
  /\ handles[h] # "closed" => \A i \in DOMAIN line[h] : line[h][i] # 0
  /\ \A i \in DOMAIN got[h] : \A j \in DOMAIN line[h] : line[h][j] = 0 \/ got[h][i] < line[h][j]
Queued ==
  \A h \in Handlers :
    /\ LineInOrder(h) /\ Rising(got[h])
    /\ \A e \in Nat : Told(h, e) \/ InLine(h, e) <=> e \in due[h]
NoPublisher == \A t \in Threads : publisher[t].left = {}
HandlesInv == GivenTyped /\ LineTyped /\ Queued /\ NoPublisher

\* At the start nothing was published.
LEMMA EventsStart == Buses!Init => EventsInv /\ HandlesInv
<1> SUFFICES ASSUME Buses!Init PROVE EventsInv /\ HandlesInv
  OBVIOUS
<1>0. << >> \in Seq(Nat) /\ Len(<< >>) = 0 /\ DOMAIN << >> = {}
  OBVIOUS
<1>1. /\ events = << >>
      /\ publisher = [t \in Threads |-> Buses!Quiet]
      /\ due = [h \in Handlers |-> {}] /\ got = [h \in Handlers |-> << >>]
      /\ handles = [h \in Handlers |-> "none"] /\ line = [h \in Handlers |-> << >>]
  BY DEF Buses!Init
<1>2. \A t \in Threads : publisher[t].event = 0 /\ publisher[t].left = {}
  BY <1>1 DEF Buses!Quiet
<1>3. PublisherTyped
  BY <1>1 DEF Buses!Quiet, PublisherTyped
<1>4. GivenTyped /\ LineTyped
  BY <1>0, <1>1 DEF GivenTyped, LineTyped
<1>5. NoHandles /\ NoPublisher
  BY <1>1, <1>2 DEF NoHandles, NoPublisher
<1>6. \A h \in Handlers : DOMAIN got[h] = {} /\ DOMAIN line[h] = {} /\ due[h] = {}
  BY <1>0, <1>1
<1>7. HandedOut
  BY <1>2, <1>4, <1>6 DEF HandedOut, Once, Told, ToTell, GivenTyped
<1>8. Queued
  BY <1>6 DEF Queued, LineInOrder, Rising, Told, InLine
<1> QED BY <1>3, <1>4, <1>5, <1>7, <1>8 DEF EventsInv, HandlesInv

\* An element put behind a sequence.
LEMMA Appended ==
  ASSUME NEW s \in Seq(Nat), NEW n \in Nat
  PROVE  /\ Append(s, n) \in Seq(Nat) /\ DOMAIN Append(s, n) = DOMAIN s \cup {Len(s) + 1}
         /\ Append(s, n)[Len(s) + 1] = n /\ Len(s) + 1 \notin DOMAIN s
         /\ \A i \in DOMAIN s : Append(s, n)[i] = s[i] /\ i < Len(s) + 1 /\ i \in Nat
OBVIOUS

\* An element taken from the front of a sequence.
LEMMA TakenOff ==
  ASSUME NEW s \in Seq(Nat), s # << >>
  PROVE  /\ Tail(s) \in Seq(Nat) /\ Head(s) = s[1] /\ 1 \in DOMAIN s /\ Head(s) \in Nat
         /\ \A i \in DOMAIN Tail(s) : i + 1 \in DOMAIN s /\ Tail(s)[i] = s[i + 1] /\ i \in Nat /\ i + 1 > 1
         /\ \A i \in DOMAIN s : i \in Nat /\ (i = 1 \/ (i - 1 \in DOMAIN Tail(s) /\ Tail(s)[i - 1] = s[i]))
OBVIOUS

\* Publishing to the handlers that listen, and telling them one by one.
LEMMA EventsStep ==
  ASSUME EventsInv, Buses!BusNext
  PROVE  EventsInv'
<1> USE DEF EventsInv
<1>0. NoHandles' /\ line' = line
  BY DEF Buses!BusNext, Buses!daemonVars, NoHandles
<1>1. CASE UNCHANGED <<publisher, events, due, got>>
  BY <1>0, <1>1 DEF GivenTyped, PublisherTyped, HandedOut, Once, Told, ToTell
<1>2. ASSUME NEW t \in Threads, Buses!Published(t) PROVE EventsInv'
  <2>1. /\ publisher' = [publisher EXCEPT ![t] = Buses!Quiet] /\ publisher[t].left = {}
        /\ UNCHANGED <<events, due, got>>
    BY <1>2 DEF Buses!Published
  <2>2. Buses!Quiet \in [event : Nat, left : SUBSET Handlers] /\ Buses!Quiet.event = 0
        /\ Buses!Quiet.left = {}
    BY DEF Buses!Quiet
  <2>3. PublisherTyped' /\ GivenTyped'
    BY <2>1, <2>2 DEF PublisherTyped, GivenTyped
  <2>4. publisher'[t].event = 0 /\ publisher'[t].left = {}
        /\ \A u \in Threads \ {t} : publisher'[u] = publisher[u]
    BY <2>1, <2>2 DEF PublisherTyped
  <2>5. \A h \in Handlers : \A e \in Nat : ToTell(h, e)' <=> ToTell(h, e)
    BY <2>1, <2>4 DEF ToTell
  <2>6. HandedOut'
    BY <2>1, <2>4, <2>5 DEF HandedOut, Once, Told, GivenTyped
  <2> QED BY <1>0, <2>3, <2>6
<1>3. ASSUME NEW t \in Threads, NEW type \in Buses!Types, Buses!Publish(t, type) PROVE EventsInv'
  <2> DEFINE M == Buses!Matching(type)
  <2>1. PICK n \in Nat : n = Len(events)
    BY DEF GivenTyped
  <2>2. /\ events' = Append(events, type) /\ publisher[t] = Buses!Quiet /\ got' = got
        /\ publisher' = [publisher EXCEPT ![t] = [event |-> Len(events'), left |-> M]]
        /\ due' = [h \in Handlers |-> IF h \in M THEN due[h] \cup {Len(events')} ELSE due[h]]
    BY <1>3 DEF Buses!Publish, Buses!Matching
  <2>3. Len(events') = n + 1 /\ n + 1 \in Nat /\ M \subseteq Handlers
    BY <2>1, <2>2 DEF Buses!Matching
  <2>4. PICK L \in SUBSET Handlers : L = M
    BY <2>3
  <2> HIDE DEF M
  <2>5. GivenTyped'
    <3>1. due' \in [Handlers -> SUBSET Nat]
      BY <2>2, <2>3 DEF GivenTyped
    <3>2. \A h \in Handlers : \A e \in due'[h] : e \in 1..n + 1
      BY <2>1, <2>2, <2>3 DEF GivenTyped
    <3> QED BY <2>2, <2>3, <3>1, <3>2 DEF GivenTyped
  <2>6. PublisherTyped'
    BY <2>2, <2>3 DEF PublisherTyped
  <2>7. /\ publisher[t].event = 0 /\ publisher[t].left = {}
        /\ publisher'[t].event = n + 1 /\ publisher'[t].left = L
        /\ \A u \in Threads \ {t} : publisher'[u] = publisher[u]
    BY <2>2, <2>3, <2>4 DEF PublisherTyped, Buses!Quiet
  <2>8. \A h \in Handlers : \A e \in Nat :
          /\ ToTell(h, e)' <=> ToTell(h, e) \/ (e = n + 1 /\ h \in L)
          /\ e \in due'[h] <=> e \in due[h] \/ (e = n + 1 /\ h \in L)
          /\ Told(h, e)' <=> Told(h, e)
    BY <2>2, <2>3, <2>4, <2>7 DEF ToTell, Told
  <2>9. \A h \in Handlers : ~Told(h, n + 1)
    BY <2>1, <2>3 DEF HandedOut, GivenTyped
  <2>10. \A u \in Threads : publisher[u].event <= n /\ publisher[u].event \in Nat
    BY <2>1 DEF HandedOut, PublisherTyped
  <2>11. \A u \in Threads : /\ publisher'[u].event <= n + 1
                            /\ publisher'[u].event = 0 => publisher'[u].left = {}
    BY <2>3, <2>7, <2>10 DEF HandedOut
  <2>12. \A u, v \in Threads :
           publisher'[u].event = publisher'[v].event => u = v \/ publisher'[u].event = 0
    BY <2>3, <2>7, <2>10 DEF HandedOut
  <2>13. \A h \in Handlers : Once(h)'
    BY <2>2 DEF HandedOut, Once
  <2>14. \A h \in Handlers : \A e \in Nat : ~(Told(h, e)' /\ ToTell(h, e)')
    BY <2>8, <2>9 DEF HandedOut
  <2>15. \A h \in Handlers : \A e \in Nat : Told(h, e)' \/ ToTell(h, e)' <=> e \in due'[h]
    BY <2>8 DEF HandedOut
  <2>16. \A u \in Threads : /\ publisher'[u].event <= Len(events')
                            /\ publisher'[u].event = 0 => publisher'[u].left = {}
    BY <2>3, <2>11
  <2>17. HandedOut'
    BY <2>12, <2>13, <2>14, <2>15, <2>16 DEF HandedOut
  <2> QED BY <1>0, <2>5, <2>6, <2>17
<1>4. ASSUME NEW t \in Threads, NEW h \in Handlers, Buses!Tell(t, h) PROVE EventsInv'
  <2>1. PICK n \in Nat : n = publisher[t].event
    BY DEF PublisherTyped
  <2>2. /\ h \in publisher[t].left /\ got' = [got EXCEPT ![h] = Append(got[h], n)]
        /\ publisher' = [publisher EXCEPT ![t].left = @ \ {h}] /\ UNCHANGED <<events, due>>
    BY <1>4, <2>1 DEF Buses!Tell
  <2>3. /\ publisher' \in [Threads -> [event : Nat, left : SUBSET Handlers]]
        /\ \A u \in Threads : publisher'[u].event = publisher[u].event
        /\ publisher'[t].left = publisher[t].left \ {h}
        /\ \A u \in Threads \ {t} : publisher'[u].left = publisher[u].left
    BY <2>2 DEF PublisherTyped
  <2>4. PICK s \in Seq(Nat) : s = got[h]
    BY DEF GivenTyped
  <2>5. got'[h] = Append(s, n) /\ \A g \in Handlers \ {h} : got'[g] = got[g]
    BY <2>2, <2>4 DEF GivenTyped
  <2>6. GivenTyped'
    BY <2>2, <2>4, Appended DEF GivenTyped
  <2>7. ToTell(h, n) /\ ~Told(h, n)
    BY <2>1, <2>2 DEF ToTell, HandedOut
  <2>8. \A e \in Nat : Told(h, e)' <=> Told(h, e) \/ e = n
    BY <2>4, <2>5, Appended DEF Told
  <2>9. n # 0 /\ \A u \in Threads : publisher[u].event = n => u = t
    BY <2>1, <2>2 DEF HandedOut
  <2>10. \A e \in Nat : ToTell(h, e)' <=> ToTell(h, e) /\ e # n
    BY <2>1, <2>2, <2>3, <2>9 DEF ToTell
  <2>11. \A g \in Handlers \ {h} : \A e \in Nat : (ToTell(g, e)' <=> ToTell(g, e)) /\ (Told(g, e)' <=> Told(g, e))
    BY <2>3, <2>5 DEF ToTell, Told
  <2>12. Once(h)'
    BY <2>4, <2>5, <2>7, Appended DEF Once, HandedOut, Told
  <2>13. \A g \in Handlers \ {h} : Once(g)'
    BY <2>5 DEF Once, HandedOut
  <2>14. \A g \in Handlers : \A e \in Nat : Told(g, e)' \/ ToTell(g, e)' <=> e \in due'[g]
    BY <2>2, <2>7, <2>8, <2>10, <2>11 DEF HandedOut
  <2>15. \A g \in Handlers : \A e \in Nat : ~(Told(g, e)' /\ ToTell(g, e)')
    BY <2>8, <2>10, <2>11 DEF HandedOut
  <2>16. HandedOut'
    BY <2>2, <2>3, <2>12, <2>13, <2>14, <2>15 DEF HandedOut
  <2> QED BY <1>0, <2>3, <2>6, <2>16 DEF PublisherTyped
<1>5. ASSUME \/ Buses!ClearHistory
             \/ \E h \in Handlers :
                  Buses!Unsubscribe(h) \/ \E type \in Buses!Types \cup {"*"} : Buses!Subscribe(h, type)
      PROVE  EventsInv'
  BY <1>1, <1>5 DEF Buses!ClearHistory, Buses!Unsubscribe, Buses!Subscribe
<1> QED
  BY <1>2, <1>3, <1>4, <1>5 DEF Buses!BusNext


\* A publish puts the event behind the queue of every open handle; a handle gives
\* out the front of its queue, and closing it puts the mark behind.
LEMMA HandlesStep ==
  ASSUME HandlesInv, Buses!DaemonNext
  PROVE  HandlesInv'
<1> USE DEF HandlesInv
<1>0. publisher' = publisher /\ NoPublisher'
  BY DEF Buses!DaemonNext, NoPublisher
<1>1. ASSUME Buses!PublishAll PROVE HandlesInv'
  <2>1. PICK n \in Nat : n = Len(events)
    BY DEF GivenTyped
  <2>2. /\ events' = Append(events, "topic") /\ handles' = handles /\ got' = got
        /\ line' = [h \in Handlers |-> IF handles[h] = "open" THEN Append(line[h], Len(events')) ELSE line[h]]
        /\ due' = [h \in Handlers |-> IF handles[h] = "open" THEN due[h] \cup {Len(events')} ELSE due[h]]
    BY <1>1 DEF Buses!PublishAll
  <2>3. Len(events') = n + 1 /\ n + 1 \in Nat /\ n + 1 # 0
    BY <2>1, <2>2
  <2>4. GivenTyped'
    <3>1. due' \in [Handlers -> SUBSET Nat]
      BY <2>2, <2>3 DEF GivenTyped
    <3>2. \A h \in Handlers : \A e \in due'[h] : e \in 1..n + 1
      BY <2>1, <2>2, <2>3 DEF GivenTyped
    <3> QED BY <2>2, <2>3, <3>1, <3>2 DEF GivenTyped
  <2>5. LineTyped'
    BY <2>2, <2>3, Appended DEF LineTyped
  <2>6. ASSUME NEW h \in Handlers, handles[h] # "open"
        PROVE  /\ LineInOrder(h)' /\ Rising(got'[h])
               /\ \A e \in Nat : Told(h, e)' \/ InLine(h, e)' <=> e \in due'[h]
    <3>1. line'[h] = line[h] /\ due'[h] = due[h] /\ got'[h] = got[h] /\ handles'[h] = handles[h]
      BY <2>2, <2>6
    <3> QED BY <3>1 DEF Queued, LineInOrder, Rising, Told, InLine
  <2>7. ASSUME NEW h \in Handlers, handles[h] = "open"
        PROVE  /\ LineInOrder(h)' /\ Rising(got'[h])
               /\ \A e \in Nat : Told(h, e)' \/ InLine(h, e)' <=> e \in due'[h]
    <3>1. PICK s \in Seq(Nat) : s = line[h]
      BY DEF LineTyped
    <3>2. PICK g \in Seq(Nat) : g = got[h]
      BY DEF GivenTyped
    <3>3. line'[h] = Append(s, n + 1) /\ due'[h] = due[h] \cup {n + 1} /\ got'[h] = g
      BY <2>2, <2>3, <2>7, <3>1, <3>2
    <3>4. /\ DOMAIN Append(s, n + 1) = DOMAIN s \cup {Len(s) + 1}
          /\ Append(s, n + 1)[Len(s) + 1] = n + 1 /\ Len(s) + 1 \notin DOMAIN s
          /\ \A i \in DOMAIN s : Append(s, n + 1)[i] = s[i] /\ i < Len(s) + 1 /\ i \in Nat
      BY <2>3, Appended
    <3>5. /\ \A i \in DOMAIN s : s[i] \in Nat /\ s[i] # 0
          /\ \A i, j \in DOMAIN s : i < j => s[i] < s[j]
          /\ \A i \in DOMAIN g : g[i] \in Nat
          /\ \A i \in DOMAIN g : \A j \in DOMAIN s : g[i] < s[j]
      BY SMTT(60), <2>7, <3>1, <3>2 DEF Queued, LineInOrder
    <3>6. \A e \in due[h] : e \in Nat /\ e < n + 1
      BY <2>1 DEF GivenTyped
    <3>7. (\A i \in DOMAIN s : s[i] < n + 1) /\ (\A i \in DOMAIN g : g[i] < n + 1)
      <4>1. \A i \in DOMAIN s : s[i] \in due[h]
        BY <3>1, <3>5 DEF Queued, InLine
      <4>2. \A i \in DOMAIN g : g[i] \in due[h]
        BY <3>2, <3>5 DEF Queued, Told
      <4> QED BY <3>6, <4>1, <4>2
    <3>8. LineInOrder(h)'
      <4>1. \A i, j \in DOMAIN line'[h] : i < j => line'[h][i] # 0 /\ line'[h][i] < line'[h][j]
        <5>1. Len(s) + 1 \in Nat
          OBVIOUS
        <5> QED BY <3>3, <3>4, <3>5, <3>7, <5>1
      <4>2. \A i \in DOMAIN line'[h] : line'[h][i] # 0
        BY <2>3, <3>3, <3>4, <3>5
      <4>3. \A i \in DOMAIN got'[h] : \A j \in DOMAIN line'[h] : got'[h][i] < line'[h][j]
        BY <3>3, <3>4, <3>5, <3>7
      <4> QED BY <4>1, <4>2, <4>3 DEF LineInOrder
    <3>9. Rising(got'[h])
      BY <3>2, <3>3 DEF Queued
    <3>10. ASSUME NEW e \in Nat PROVE Told(h, e)' \/ InLine(h, e)' <=> e \in due'[h]
      <4>1. Told(h, e)' <=> Told(h, e)
        BY <3>2, <3>3 DEF Told
      <4>2. InLine(h, e)' <=> InLine(h, e) \/ e = n + 1
        BY <2>3, <3>1, <3>3, <3>4 DEF InLine
      <4>3. Told(h, e) \/ InLine(h, e) <=> e \in due[h]
        BY DEF Queued
      <4> QED BY <3>3, <4>1, <4>2, <4>3
    <3> QED BY <3>8, <3>9, <3>10
  <2>8. Queued'
    BY <2>6, <2>7 DEF Queued
  <2> QED BY <1>0, <2>4, <2>5, <2>8
<1>2. ASSUME NEW h \in Handlers, Buses!Open(h) PROVE HandlesInv'
  <2>1. /\ handles[h] = "none" /\ handles' = [handles EXCEPT ![h] = "open"]
        /\ UNCHANGED <<line, events, due, got>>
    BY <1>2 DEF Buses!Open
  <2>2. handles'[h] = "open" /\ \A k \in Handlers \ {h} : handles'[k] = handles[k]
    BY <2>1 DEF LineTyped
  <2>3. GivenTyped' /\ LineTyped'
    BY <2>1 DEF GivenTyped, LineTyped
  <2>4. \A k \in Handlers : LineInOrder(k)'
    BY <2>1, <2>2 DEF Queued, LineInOrder
  <2>5. Queued'
    BY <2>1, <2>4 DEF Queued, Rising, Told, InLine
  <2> QED BY <1>0, <2>3, <2>5
<1>3. ASSUME NEW h \in Handlers, Buses!Receive(h) PROVE HandlesInv'
  <2>1. PICK s \in Seq(Nat) : s = line[h]
    BY DEF LineTyped
  <2>2. PICK g \in Seq(Nat) : g = got[h]
    BY DEF GivenTyped
  <2>3. /\ s # << >> /\ line' = [line EXCEPT ![h] = Tail(s)]
        /\ got' = [got EXCEPT ![h] = IF Head(s) = 0 THEN g ELSE Append(g, Head(s))]
        /\ UNCHANGED <<handles, events, due>>
    BY <1>3, <2>1, <2>2 DEF Buses!Receive
  <2>4. /\ Tail(s) \in Seq(Nat) /\ Head(s) = s[1] /\ 1 \in DOMAIN s /\ Head(s) \in Nat
        /\ \A i \in DOMAIN Tail(s) : i + 1 \in DOMAIN s /\ Tail(s)[i] = s[i + 1] /\ i \in Nat /\ i + 1 > 1
        /\ \A i \in DOMAIN s : i \in Nat /\ (i = 1 \/ (i - 1 \in DOMAIN Tail(s) /\ Tail(s)[i - 1] = s[i]))
    BY <2>3, TakenOff
  <2>5. PICK x \in Nat : x = s[1]
    BY <2>4
  <2>6. /\ line'[h] = Tail(s) /\ \A k \in Handlers \ {h} : line'[k] = line[k] /\ got'[k] = got[k]
        /\ got'[h] = IF x = 0 THEN g ELSE Append(g, x)
    BY <2>3, <2>4, <2>5 DEF LineTyped, GivenTyped
  <2>7. GivenTyped' /\ LineTyped'
    BY <2>2, <2>3, <2>4, Appended DEF GivenTyped, LineTyped
  <2>8. /\ \A i, j \in DOMAIN s : i < j => s[i] # 0 /\ (s[j] = 0 \/ s[i] < s[j])
        /\ handles[h] # "closed" => \A i \in DOMAIN s : s[i] # 0
        /\ \A i \in DOMAIN g : \A j \in DOMAIN s : s[j] = 0 \/ g[i] < s[j]
        /\ Rising(g)
    BY <2>1, <2>2 DEF Queued, LineInOrder
  <2>9. /\ \A i \in DOMAIN Tail(s) : i + 1 \in DOMAIN s /\ Tail(s)[i] = s[i + 1] /\ i \in Nat
        /\ \A i \in DOMAIN Tail(s) : x # 0 /\ (Tail(s)[i] = 0 \/ x < Tail(s)[i])
    BY <2>4, <2>5, <2>8
  <2>10. /\ \A i, j \in DOMAIN Tail(s) : i < j => Tail(s)[i] # 0 /\ (Tail(s)[j] = 0 \/ Tail(s)[i] < Tail(s)[j])
         /\ handles[h] # "closed" => \A i \in DOMAIN Tail(s) : Tail(s)[i] # 0
    BY SMTT(60), <2>8, <2>9
  <2>11. ASSUME NEW e \in Nat PROVE InLine(h, e) <=> (e = x /\ e # 0) \/ InLine(h, e)'
    <3>1. InLine(h, e) <=> e # 0 /\ \E i \in DOMAIN s : s[i] = e
      BY <2>1 DEF InLine
    <3>2. InLine(h, e)' <=> e # 0 /\ \E i \in DOMAIN Tail(s) : Tail(s)[i] = e
      BY <2>6 DEF InLine
    <3>3. (\E i \in DOMAIN s : s[i] = e) <=> e = x \/ \E i \in DOMAIN Tail(s) : Tail(s)[i] = e
      BY ZenonT(60), <2>4, <2>5
    <3> QED BY <3>1, <3>2, <3>3
  <2>12. ASSUME NEW k \in Handlers \ {h}
         PROVE  /\ LineInOrder(k)' /\ Rising(got'[k])
                /\ \A e \in Nat : Told(k, e)' \/ InLine(k, e)' <=> e \in due'[k]
    <3>1. line'[k] = line[k] /\ got'[k] = got[k] /\ due'[k] = due[k] /\ handles'[k] = handles[k]
      BY <2>3, <2>6
    <3>2. LineInOrder(k) /\ Rising(got[k]) /\ \A e \in Nat : Told(k, e) \/ InLine(k, e) <=> e \in due[k]
      BY DEF Queued
    <3>3. \A e \in Nat : Told(k, e)' \/ InLine(k, e)' <=> e \in due'[k]
      BY <3>1, <3>2 DEF Told, InLine
    <3>4. Rising(got'[k])
      BY <3>1, <3>2
    <3>5. LineInOrder(k)'
      BY <3>1, <3>2 DEF LineInOrder
    <3> QED BY <3>3, <3>4, <3>5
  <2>13. CASE x = 0
    <3>1. got'[h] = g
      BY <2>6, <2>13
    <3>2. LineInOrder(h)' /\ Rising(got'[h])
      <4>1. \A i \in DOMAIN g : \A j \in DOMAIN Tail(s) : Tail(s)[j] = 0 \/ g[i] < Tail(s)[j]
        BY <2>8, <2>9
      <4> QED BY SMTT(60), <2>3, <2>6, <2>8, <2>10, <3>1, <4>1 DEF LineInOrder
    <3>3. ASSUME NEW e \in Nat PROVE Told(h, e)' \/ InLine(h, e)' <=> e \in due'[h]
      <4>1. Told(h, e)' <=> Told(h, e)
        BY <2>2, <3>1 DEF Told
      <4> QED BY <2>3, <2>11, <2>13, <4>1 DEF Queued
    <3> QED BY <1>0, <2>7, <2>12, <3>2, <3>3 DEF Queued
  <2>14. CASE x # 0
    <3>1. got'[h] = Append(g, x)
      BY <2>6, <2>14
    <3>2. /\ DOMAIN Append(g, x) = DOMAIN g \cup {Len(g) + 1}
          /\ Append(g, x)[Len(g) + 1] = x /\ Len(g) + 1 \notin DOMAIN g
          /\ \A i \in DOMAIN g : Append(g, x)[i] = g[i] /\ i < Len(g) + 1 /\ i \in Nat
      BY Appended
    <3>3. \A i \in DOMAIN g : g[i] < x
      BY <2>4, <2>5, <2>8, <2>14
    <3>4. Rising(got'[h])
      <4>1. Len(g) + 1 \in Nat /\ \A i, j \in DOMAIN g : i < j => g[i] < g[j]
        BY <2>8 DEF Rising
      <4> QED BY <3>1, <3>2, <3>3, <4>1 DEF Rising
    <3>5. LineInOrder(h)'
      <4>1. \A i \in DOMAIN got'[h] : \A j \in DOMAIN line'[h] : line'[h][j] = 0 \/ got'[h][i] < line'[h][j]
        BY SMTT(60), <2>6, <2>8, <2>9, <3>1, <3>2
      <4> QED BY ZenonT(60), <2>3, <2>6, <2>10, <4>1 DEF LineInOrder
    <3>6. ASSUME NEW e \in Nat PROVE Told(h, e)' \/ InLine(h, e)' <=> e \in due'[h]
      <4>1. Told(h, e)' <=> Told(h, e) \/ e = x
        BY <2>2, <3>1, <3>2 DEF Told
      <4>2. Told(h, e) \/ InLine(h, e) <=> e \in due[h]
        BY DEF Queued
      <4> QED BY <2>3, <2>11, <2>14, <4>1, <4>2
    <3> QED BY <1>0, <2>7, <2>12, <3>4, <3>5, <3>6 DEF Queued
  <2> QED BY <2>13, <2>14
<1>4. ASSUME NEW h \in Handlers, Buses!Close(h) PROVE HandlesInv'
  <2>1. PICK s \in Seq(Nat) : s = line[h]
    BY DEF LineTyped
  <2>2. /\ handles[h] = "open" /\ handles' = [handles EXCEPT ![h] = "closed"]
        /\ line' = [line EXCEPT ![h] = Append(s, 0)] /\ UNCHANGED <<events, due, got>>
    BY <1>4, <2>1 DEF Buses!Close
  <2>3. /\ Append(s, 0) \in Seq(Nat) /\ DOMAIN Append(s, 0) = DOMAIN s \cup {Len(s) + 1}
        /\ Append(s, 0)[Len(s) + 1] = 0 /\ Len(s) + 1 \notin DOMAIN s
        /\ \A i \in DOMAIN s : Append(s, 0)[i] = s[i] /\ i < Len(s) + 1 /\ i \in Nat
    BY Appended
  <2>4. /\ line'[h] = Append(s, 0) /\ handles'[h] = "closed"
        /\ \A k \in Handlers \ {h} : line'[k] = line[k] /\ handles'[k] = handles[k]
    BY <2>2 DEF LineTyped
  <2>5. LineTyped' /\ GivenTyped'
    BY <2>2, <2>3 DEF LineTyped, GivenTyped
  <2>6. LineInOrder(h)'
    <3>1. /\ \A i \in DOMAIN s : s[i] # 0
          /\ \A i, j \in DOMAIN s : i < j => s[i] < s[j]
          /\ \A i \in DOMAIN got[h] : \A j \in DOMAIN s : got[h][i] < s[j]
      BY <2>1, <2>2 DEF Queued, LineInOrder
    <3>2. Len(s) + 1 \in Nat
      OBVIOUS
    <3>3. \A i, j \in DOMAIN line'[h] : i < j => line'[h][i] # 0 /\ (line'[h][j] = 0 \/ line'[h][i] < line'[h][j])
      BY <2>3, <2>4, <3>1, <3>2
    <3>4. \A i \in DOMAIN got'[h] : \A j \in DOMAIN line'[h] : line'[h][j] = 0 \/ got'[h][i] < line'[h][j]
      BY <2>2, <2>3, <2>4, <3>1
    <3> QED BY <2>4, <3>3, <3>4 DEF LineInOrder
  <2>7. \A e \in Nat : InLine(h, e)' <=> InLine(h, e)
    BY <2>1, <2>3, <2>4 DEF InLine
  <2>8. \A k \in Handlers : \A e \in Nat : (InLine(k, e)' <=> InLine(k, e)) /\ (Told(k, e)' <=> Told(k, e))
    BY SMTT(60), <2>2, <2>4, <2>7 DEF InLine, Told
  <2>9. \A k \in Handlers \ {h} : LineInOrder(k)'
    BY <2>2, <2>4 DEF Queued, LineInOrder
  <2>10. Queued'
    BY <2>2, <2>6, <2>8, <2>9 DEF Queued, Rising
  <2> QED BY <1>0, <2>5, <2>10
<1> QED BY <1>1, <1>2, <1>3, <1>4 DEF Buses!DaemonNext

\* Whoever listened is given each event once, from threads and from queues.
LEMMA GivenOnce == EventsInv \/ HandlesInv => Buses!EachOnce
<1>1. ASSUME EventsInv, NEW h \in Handlers
      PROVE  LET waiting == {publisher[t].event : t \in {u \in Threads : h \in publisher[u].left}}
                              \cup (Buses!ToSet(line[h]) \ {0})
             IN /\ Buses!IsInjective(got[h]) /\ Buses!ToSet(got[h]) \cup waiting = due[h]
                /\ Buses!ToSet(got[h]) \cap waiting = {} /\ handles[h] = "none"
  <2>1. handles[h] = "none" /\ DOMAIN line[h] = {}
    BY <1>1 DEF EventsInv, NoHandles
  <2>2. Buses!ToSet(line[h]) \ {0} = {}
    BY <2>1 DEF Buses!ToSet
  <2>3. Buses!IsInjective(got[h])
    BY <1>1 DEF EventsInv, HandedOut, Once, Buses!IsInjective
  <2>4. \A e : e \in Buses!ToSet(got[h]) <=> e \in Nat /\ Told(h, e)
    BY <1>1 DEF EventsInv, GivenTyped, Told, Buses!ToSet
  <2>5. \A e : e \in {publisher[t].event : t \in {u \in Threads : h \in publisher[u].left}}
                 <=> e \in Nat /\ ToTell(h, e)
    BY <1>1 DEF EventsInv, PublisherTyped, ToTell
  <2>6. due[h] \subseteq Nat
    BY <1>1 DEF EventsInv, GivenTyped
  <2>7. \A e \in Nat : (Told(h, e) \/ ToTell(h, e) <=> e \in due[h]) /\ ~(Told(h, e) /\ ToTell(h, e))
    BY <1>1 DEF EventsInv, HandedOut
  <2> QED BY <2>1, <2>2, <2>3, <2>4, <2>5, <2>6, <2>7
<1>2. ASSUME HandlesInv, NEW h \in Handlers
      PROVE  LET waiting == {publisher[t].event : t \in {u \in Threads : h \in publisher[u].left}}
                              \cup (Buses!ToSet(line[h]) \ {0})
             IN /\ Buses!IsInjective(got[h]) /\ Buses!ToSet(got[h]) \cup waiting = due[h]
                /\ Buses!ToSet(got[h]) \cap waiting = {}
                /\ \A i, j \in DOMAIN got[h] : i < j => got[h][i] < got[h][j]
                /\ 0 \in Buses!ToSet(line[h]) => Buses!Last(line[h]) = 0
  <2> USE <1>2 DEF HandlesInv
  <2>1. {publisher[t].event : t \in {u \in Threads : h \in publisher[u].left}} = {}
    BY DEF NoPublisher
  <2>2. PICK g \in Seq(Nat) : g = got[h]
    BY DEF GivenTyped
  <2>3. PICK s \in Seq(Nat) : s = line[h]
    BY DEF LineTyped
  <2>4. /\ \A i, j \in DOMAIN g : i < j => g[i] < g[j]
        /\ \A i \in DOMAIN g : \A j \in DOMAIN s : s[j] = 0 \/ g[i] < s[j]
        /\ \A i, j \in DOMAIN s : i < j => s[i] # 0
    BY <2>2, <2>3 DEF Queued, LineInOrder, Rising
  <2>5. Buses!IsInjective(g)
    BY <2>4 DEF Buses!IsInjective
  <2>6. \A e : e \in Buses!ToSet(g) <=> e \in Nat /\ Told(h, e)
    BY <2>2 DEF Told, Buses!ToSet
  <2>7. \A e : e \in Buses!ToSet(s) \ {0} <=> e \in Nat /\ InLine(h, e)
    BY <2>3 DEF InLine, Buses!ToSet
  <2>8. \A e \in Nat : Told(h, e) \/ InLine(h, e) <=> e \in due[h]
    BY DEF Queued
  <2>9. \A e \in Nat : ~(Told(h, e) /\ InLine(h, e))
    <3>1. \A i \in DOMAIN g : g[i] \in Nat
      OBVIOUS
    <3>2. ASSUME NEW e \in Nat, NEW i \in DOMAIN g, NEW j \in DOMAIN s, e # 0, g[i] = e, s[j] = e
          PROVE  FALSE
      <4>1. s[j] = 0 \/ g[i] < s[j]
        BY <2>4
      <4> QED BY <3>2, <4>1
    <3> QED BY <2>2, <2>3, <3>2 DEF Told, InLine
  <2>10. due[h] \subseteq Nat
    BY DEF GivenTyped
  <2>11. 0 \in Buses!ToSet(s) => Buses!Last(s) = 0
    <3>1. ASSUME NEW i \in DOMAIN s, s[i] = 0 PROVE s[Len(s)] = 0
      <4>1. i \in Nat /\ Len(s) \in DOMAIN s /\ (i = Len(s) \/ i < Len(s))
        OBVIOUS
      <4> QED BY <2>4, <3>1, <4>1
    <3> QED BY <3>1 DEF Buses!ToSet, Buses!Last
  <2>12. Buses!ToSet(g) \cup (Buses!ToSet(s) \ {0}) = due[h]
         /\ Buses!ToSet(g) \cap (Buses!ToSet(s) \ {0}) = {}
    BY <2>6, <2>7, <2>8, <2>9, <2>10
  <2> QED BY <2>1, <2>2, <2>3, <2>4, <2>5, <2>11, <2>12
<1> QED BY <1>1, <1>2 DEF Buses!EachOnce

-----------------------------------------------------------------------------
(* The barrier and the memory queue.  Who came after the event was set has *)
(* its answer, and nobody waits for a set event; what is pending has a     *)
(* timer, or came immediate.                                               *)
SignalInv ==
  /\ waiter \in [Handlers -> {"idle", "waiting", "woken", "true", "false"}]
  /\ early \subseteq Handlers /\ \A h \in early : waiter[h] = "true"
  /\ signal => \A h \in Handlers : waiter[h] # "waiting"
MemoryInv == timer \in BOOLEAN /\ unarmed \in BOOLEAN /\ Buses!UpdatesHaveATimer

\* Both hold at the start.
LEMMA BarrierStart == Buses!Init => SignalInv /\ MemoryInv
  BY DEF Buses!Init, SignalInv, MemoryInv, Buses!UpdatesHaveATimer

\* Waiting, setting, answering and giving up keep the waiters' places.
LEMMA SignalStep == SignalInv /\ Buses!BarrierNext => SignalInv'
<1> SUFFICES ASSUME SignalInv, Buses!BarrierNext PROVE SignalInv'
  OBVIOUS
<1> USE DEF SignalInv
<1>1. CASE Buses!SetEvent
  <2>1. \A h \in Handlers : waiter'[h] = IF waiter[h] = "waiting" THEN "woken" ELSE waiter[h]
    BY <1>1 DEF Buses!SetEvent, Buses!Wakes
  <2>2. waiter' = [h \in Handlers |-> waiter'[h]] /\ early' = early /\ early \subseteq Handlers
    BY <1>1 DEF Buses!SetEvent, Buses!Wakes
  <2>3. \A h \in Handlers : waiter'[h] \in {"idle", "waiting", "woken", "true", "false"} /\ waiter'[h] # "waiting"
    BY <2>1
  <2>4. waiter' \in [Handlers -> {"idle", "waiting", "woken", "true", "false"}]
    BY <2>2, <2>3
  <2> QED BY <2>1, <2>2, <2>3, <2>4
<1>2. ASSUME NEW h \in Handlers, Buses!WaitFor(h) PROVE SignalInv'
  BY <1>2 DEF Buses!WaitFor
<1>3. ASSUME NEW h \in Handlers, Buses!Answered(h) PROVE SignalInv'
  BY <1>3 DEF Buses!Answered
<1>4. ASSUME NEW h \in Handlers, Buses!TimesOut(h) PROVE SignalInv'
  BY <1>4 DEF Buses!TimesOut
<1> QED BY <1>1, <1>2, <1>3, <1>4 DEF Buses!BarrierNext

\* An update is pending until it is written, and then nothing is.
LEMMA MemoryStep == MemoryInv /\ Buses!MemoryNext => MemoryInv'
<1> SUFFICES ASSUME MemoryInv, Buses!MemoryNext PROVE MemoryInv'
  OBVIOUS
<1> USE DEF MemoryInv, Buses!UpdatesHaveATimer
<1>1. CASE Buses!FlushOne
  BY <1>1 DEF Buses!FlushOne
<1>2. ASSUME NEW f \in Buses!Fields, NEW i \in BOOLEAN, Buses!Enqueue(f, i) PROVE MemoryInv'
  <2>1. kept' = kept \cup {f} /\ updates' = updates \cup {f}
    BY <1>2 DEF Buses!Enqueue
  <2>2. timer' \in BOOLEAN /\ unarmed' \in BOOLEAN /\ (timer' \/ unarmed')
    BY <1>2 DEF Buses!Enqueue
  <2> QED BY <2>1, <2>2
<1> QED BY <1>1, <1>2 DEF Buses!MemoryNext, Buses!TimerFires, Buses!FlushAll

-----------------------------------------------------------------------------
(* The capabilities.  While no two calls were at the revocation file at    *)
(* once and none died there, what was revoked for good is in memory and,   *)
(* unless somebody is writing it, in the file; who writes has emptied it,  *)
(* and what it is about to write has all of that.                          *)
RevokerTyped ==
  /\ expiry \in [Nonces -> Nat] /\ revoked \in SUBSET Nonces /\ IsFiniteSet(revoked)
  /\ lines \in Seq(Nonces) /\ settled \in SUBSET Nonces /\ spoilt \in BOOLEAN
  /\ revoker \in [Threads -> [at : {"idle", "added", "opened", "sorted"}, nonce : Nat, text : Seq(Nonces)]]
NonceIsRevoked == \A t \in Threads : revoker[t].at # "idle" => revoker[t].nonce \in revoked
Filed ==
  /\ settled \subseteq revoked
  /\ Rights!Writing = {} => settled \subseteq Rights!ToSet(lines)
  /\ \A t \in Rights!Writing :
       /\ lines = << >> /\ Rights!Writing = {t}
       /\ revoker[t].at = "sorted" => settled \cup {revoker[t].nonce} \subseteq Rights!ToSet(revoker[t].text)
TokenInv == RevokerTyped /\ NonceIsRevoked /\ (~spoilt => Filed)
SessionInv ==
  /\ clock \in Nat /\ restarts \in Nat
  /\ sessions \subseteq [sid : 1..MaxSessions, exp : Nat, line : 1..MaxSessions]
  /\ \A s \in sessions : s.line <= s.sid
  /\ refresher \in [Threads -> sessions \cup {Rights!NoSession}]
RightsInv == TokenInv /\ SessionInv

\* What is sorted are the elements of the set, all of them.
LEMMA SortedIsWhole ==
  ASSUME NEW S \in SUBSET Nat, IsFiniteSet(S)
  PROVE  Rights!Sorted(S) \in Seq(S) /\ Rights!ToSet(Rights!Sorted(S)) = S
<1> DEFINE Below(n) == {m \in S : m < n}
           k == Cardinality(S)
           rank == [n \in S |-> 1 + Cardinality(Below(n))]
<1>1. k \in Nat /\ \A n \in S : IsFiniteSet(Below(n)) /\ Cardinality(Below(n)) \in Nat
  BY FS_CardinalityType, FS_Subset
<1>2. ASSUME NEW m \in S, NEW n \in S, m < n PROVE rank[m] < rank[n]
  <2>1. Below(m) \subseteq Below(n) /\ m \in Below(n) /\ m \notin Below(m)
    <3>1. m \in Nat /\ n \in Nat /\ \A x \in S : x \in Nat
      OBVIOUS
    <3>2. (\A x \in S : x < m => x < n) /\ ~(m < m)
      BY <1>2, <3>1
    <3>3. Below(m) \subseteq Below(n)
      BY <3>2
    <3>4. m \in Below(n)
      BY <1>2
    <3> QED BY <3>2, <3>3, <3>4
  <2>2. Cardinality(Below(m)) <= Cardinality(Below(n))
        /\ (Cardinality(Below(n)) = Cardinality(Below(m)) => Below(n) = Below(m))
    <3>1. IsFiniteSet(Below(n)) /\ Below(m) \in SUBSET Below(n)
      BY <1>1, <2>1
    <3> HIDE DEF Below
    <3> QED BY <3>1, FS_Subset
  <2>3. Cardinality(Below(m)) # Cardinality(Below(n))
    BY <2>1, <2>2
  <2> QED BY <1>1, <2>2, <2>3
<1>3. \A n \in S : rank[n] \in 1..k
  <2>1. ASSUME NEW n \in S PROVE rank[n] \in 1..k
    <3>1. Below(n) \subseteq S /\ n \in S /\ n \notin Below(n)
      OBVIOUS
    <3>2. Cardinality(Below(n)) <= k /\ k # Cardinality(Below(n))
      BY <3>1, FS_Subset
    <3> QED BY <1>1, <3>2
  <2> QED BY <2>1
<1>4. rank \in Injection(S, 1..k)
  <2>1. \A m, n \in S : m # n => rank[m] # rank[n]
    <3>1. ASSUME NEW m \in S, NEW n \in S, m # n PROVE rank[m] # rank[n]
      <4>1. m < n \/ n < m
        BY <3>1
      <4>2. rank[m] \in Nat /\ rank[n] \in Nat
        BY <1>1
      <4> HIDE DEF rank
      <4> QED BY <4>1, <4>2, <1>2
    <3> QED BY <3>1
  <2>2. rank \in [S -> 1..k]
    BY <1>3
  <2> HIDE DEF rank
  <2> QED BY <2>1, <2>2 DEF Injection, IsInjective
<1>5. rank \in Surjection(S, 1..k)
  <2>1. IsFiniteSet(1..k) /\ Cardinality(1..k) = k
    BY <1>1, FS_Interval
  <2> HIDE DEF rank
  <2> QED BY <1>4, <2>1, FS_Injection
<1>6. \A i \in 1..k : \E n \in S : Cardinality(Below(n)) = i - 1
  <2>1. \A i \in 1..k : \E n \in S : rank[n] = i
    BY <1>5 DEF Surjection
  <2> QED BY <1>1, <2>1
<1>7. Rights!Sorted(S) = [i \in 1..k |-> CHOOSE n \in S : Cardinality(Below(n)) = i - 1]
  BY DEF Rights!Sorted, Rights!Cardinality, Cardinality
<1>8. \A i \in 1..k : Rights!Sorted(S)[i] \in S /\ Cardinality(Below(Rights!Sorted(S)[i])) = i - 1
  BY <1>6, <1>7
<1>9. \A n \in S : \E i \in 1..k : Rights!Sorted(S)[i] = n
  <2>1. ASSUME NEW n \in S PROVE Rights!Sorted(S)[rank[n]] = n
    <3>1. rank[n] \in 1..k
      BY <1>3
    <3>2. PICK m \in S : m = Rights!Sorted(S)[rank[n]] /\ Cardinality(Below(m)) = rank[n] - 1
      BY <1>8, <3>1
    <3>3. rank[m] = rank[n]
      <4>1. rank[m] = 1 + (rank[n] - 1)
        BY <3>2
      <4> HIDE DEF rank
      <4> QED BY <3>1, <4>1
    <3> HIDE DEF rank
    <3>4. m = n
      BY <1>4, <3>3 DEF Injection, IsInjective
    <3> QED BY <3>2, <3>4
  <2> QED BY <1>3, <2>1
<1>10. Rights!Sorted(S) \in [1..k -> S]
  BY <1>7, <1>8
<1>11. Rights!Sorted(S) \in Seq(S) /\ DOMAIN Rights!Sorted(S) = 1..k
  BY <1>1, <1>10
<1> QED BY <1>8, <1>9, <1>11 DEF Rights!ToSet

\* At the start nothing was issued.
LEMMA RightsStart == Rights!Init => TokenInv /\ SessionInv
<1> SUFFICES ASSUME Rights!Init PROVE TokenInv /\ SessionInv
  OBVIOUS
<1>1. IsFiniteSet({}) /\ << >> \in Seq(Nonces)
  BY FS_EmptySet
<1>2. RevokerTyped
  BY <1>1 DEF Rights!Init, Rights!Quiet, RevokerTyped
<1>3. Rights!Writing = {}
  BY DEF Rights!Init, Rights!Quiet, Rights!Writing
<1> QED
  BY <1>2, <1>3 DEF Rights!Init, Rights!Quiet, Rights!NoSession, TokenInv, SessionInv, NonceIsRevoked, Filed

\* The nonces in a file are finitely many.
LEMMA LoadIsFinite ==
  ASSUME NEW s \in Seq(Nonces)
  PROVE  Rights!ToSet(s) \in SUBSET Nonces /\ IsFiniteSet(Rights!ToSet(s))
<1>1. DOMAIN s = 1..Len(s) /\ Len(s) \in Nat /\ IsFiniteSet(1..Len(s))
  BY FS_Interval
<1>2. s \in Surjection(1..Len(s), Rights!ToSet(s))
  BY <1>1 DEF Surjection, Rights!ToSet
<1>3. Rights!ToSet(s) \in SUBSET Nonces
  BY <1>1 DEF Rights!ToSet
<1> QED BY <1>1, <1>2, <1>3, FS_Surjection

\* Over a file that is empty, what is written is the file.
LEMMA OverEmpty ==
  ASSUME NEW s \in Seq(Nonces)
  PROVE  Rights!Over(s, << >>) = s
<1>1. SubSeq(<< >>, Len(s) + 1, Len(<< >>)) = << >>
  OBVIOUS
<1>2. s \o << >> = s
  OBVIOUS
<1> QED BY <1>1, <1>2 DEF Rights!Over

\* A call of revoke, from the set to the file, keeps the invariant.
LEMMA RevokeStep ==
  ASSUME TokenInv, NEW t \in Threads,
         \/ \E n \in Nonces : Rights!RevokeAdd(t, n)
         \/ Rights!FlushOpen(t) \/ Rights!FlushSort(t) \/ Rights!FlushWrite(t)
  PROVE  TokenInv'
<1>0. /\ RevokerTyped /\ NonceIsRevoked /\ Nonces \subseteq Nat
      /\ << >> \in Seq(Nonces) /\ DOMAIN revoker = Threads
  BY RightsAssumption DEF TokenInv, RevokerTyped, Rights!BoundsAssumption
<1>1. ASSUME NEW n \in Nonces, Rights!RevokeAdd(t, n) PROVE TokenInv'
  <2>1. /\ revoked' = revoked \cup {n} /\ revoker[t].at = "idle"
        /\ revoker' = [revoker EXCEPT ![t] = [at |-> "added", nonce |-> n, text |-> << >>]]
        /\ UNCHANGED <<expiry, lines, settled, spoilt>>
    BY <1>1 DEF Rights!RevokeAdd
  <2>2. IsFiniteSet(revoked')
    BY <1>0, <2>1, FS_AddElement DEF RevokerTyped
  <2>3. RevokerTyped'
    BY <1>0, <2>1, <2>2 DEF RevokerTyped
  <2>4. NonceIsRevoked'
    BY <1>0, <2>1 DEF NonceIsRevoked
  <2>5. Rights!Writing' = Rights!Writing /\ \A u \in Rights!Writing : revoker'[u] = revoker[u]
    BY <1>0, <2>1 DEF Rights!Writing
  <2>6. Filed => Filed'
    BY <2>1, <2>5 DEF Filed, Rights!ToSet
  <2> QED BY <2>1, <2>3, <2>4, <2>6 DEF TokenInv
<1>2. ASSUME Rights!FlushOpen(t) PROVE TokenInv'
  <2>1. /\ revoker[t].at = "added" /\ lines' = << >> /\ spoilt' = (spoilt \/ Rights!Writing # {})
        /\ revoker' = [revoker EXCEPT ![t] = [at |-> "opened", nonce |-> revoker[t].nonce, text |-> << >>]]
        /\ UNCHANGED <<expiry, revoked, settled>>
    BY <1>2 DEF Rights!FlushOpen, Rights!Step
  <2>3. RevokerTyped'
    <3>1. spoilt' \in BOOLEAN
      BY <1>0, <2>1 DEF RevokerTyped
    <3>2. revoker[t].nonce \in Nat
      BY <1>0 DEF RevokerTyped
    <3> QED BY <1>0, <2>1, <3>1, <3>2 DEF RevokerTyped
  <2>4. NonceIsRevoked'
    BY <1>0, <2>1 DEF NonceIsRevoked
  <2>5. Rights!Writing' = Rights!Writing \cup {t}
    BY <1>0, <2>1 DEF Rights!Writing
  <2>6. ASSUME ~spoilt' PROVE Filed'
    <3>1. Rights!Writing' = {t} /\ Filed
      BY <2>1, <2>5, <2>6 DEF TokenInv
    <3>2. revoker'[t].at = "opened"
      BY <1>0, <2>1
    <3> QED BY <2>1, <3>1, <3>2 DEF Filed
  <2> QED BY <2>3, <2>4, <2>6 DEF TokenInv
<1>3. ASSUME Rights!FlushSort(t) PROVE TokenInv'
  <2> DEFINE written == Rights!Sorted(revoked)
  <2>1. /\ revoker[t].at = "opened" /\ UNCHANGED <<expiry, revoked, lines, settled, spoilt>>
        /\ revoker' = [revoker EXCEPT ![t] = [at |-> "sorted", nonce |-> revoker[t].nonce, text |-> written]]
    BY <1>3 DEF Rights!FlushSort, Rights!Step
  <2>2. written \in Seq(revoked) /\ Rights!ToSet(written) = revoked
    BY <1>0, SortedIsWhole DEF RevokerTyped
  <2>3. written \in Seq(Nonces)
    <3>1. revoked \subseteq Nonces
      BY <1>0 DEF RevokerTyped
    <3> HIDE DEF written
    <3> QED BY <2>2, <3>1
  <2> HIDE DEF written
  <2>5. RevokerTyped'
    BY <1>0, <2>1, <2>3 DEF RevokerTyped
  <2>6. NonceIsRevoked' /\ revoker[t].nonce \in revoked
    BY <1>0, <2>1 DEF NonceIsRevoked
  <2>7. Rights!Writing' = Rights!Writing /\ t \in Rights!Writing
    BY <1>0, <2>1 DEF Rights!Writing
  <2>8. ASSUME Filed PROVE Filed'
    <3>1. Rights!Writing' = {t} /\ lines = << >> /\ settled \subseteq revoked
      BY <2>7, <2>8 DEF Filed
    <3>2. revoker'[t].nonce = revoker[t].nonce /\ revoker'[t].text = written
      BY <1>0, <2>1
    <3>3. settled' \cup {revoker'[t].nonce} \subseteq Rights!ToSet(revoker'[t].text)
      BY <2>1, <2>2, <2>6, <3>1, <3>2
    <3>4. Rights!ToSet(revoker[t].text)' = Rights!ToSet(revoker'[t].text)
      BY DEF Rights!ToSet
    <3> QED BY <2>1, <3>1, <3>3, <3>4 DEF Filed
  <2> QED BY <2>1, <2>5, <2>6, <2>8 DEF TokenInv
<1>4. ASSUME Rights!FlushWrite(t) PROVE TokenInv'
  <2>1. /\ revoker[t].at = "sorted" /\ lines' = Rights!Over(revoker[t].text, lines)
        /\ settled' = settled \cup {revoker[t].nonce} /\ UNCHANGED <<expiry, revoked, spoilt>>
        /\ revoker' = [revoker EXCEPT ![t] = [at |-> "idle", nonce |-> 0, text |-> << >>]]
    BY <1>4 DEF Rights!FlushWrite, Rights!Quiet
  <2>2. revoker[t].text \in Seq(Nonces) /\ revoker[t].nonce \in revoked
    BY <1>0, <2>1 DEF RevokerTyped, NonceIsRevoked
  <2>3. lines' \in Seq(Nonces)
    <3>1. SubSeq(lines, Len(revoker[t].text) + 1, Len(lines)) \in Seq(Nonces)
      BY <1>0, <2>2 DEF RevokerTyped
    <3> QED BY <2>1, <2>2, <3>1 DEF Rights!Over
  <2>4. RevokerTyped'
    BY <1>0, <2>1, <2>2, <2>3 DEF RevokerTyped
  <2>5. NonceIsRevoked'
    BY <1>0, <2>1 DEF NonceIsRevoked
  <2>6. Rights!Writing' = Rights!Writing \ {t} /\ t \in Rights!Writing
    BY <1>0, <2>1 DEF Rights!Writing
  <2>7. ASSUME Filed PROVE Filed'
    <3>1. Rights!Writing' = {} /\ lines = << >> /\ settled \subseteq revoked
          /\ settled \cup {revoker[t].nonce} \subseteq Rights!ToSet(revoker[t].text)
      BY <2>1, <2>6, <2>7 DEF Filed
    <3>2. lines' = revoker[t].text
      BY <2>1, <2>2, <3>1, OverEmpty
    <3>3. Rights!ToSet(lines)' = Rights!ToSet(revoker[t].text)
      BY <3>2 DEF Rights!ToSet
    <3> QED BY <2>1, <2>2, <3>1, <3>3 DEF Filed
  <2> QED BY <2>1, <2>4, <2>5, <2>7 DEF TokenInv
<1> QED BY <1>1, <1>2, <1>3, <1>4

\* So do issuing a token and the end of the process.
LEMMA TokenStep ==
  ASSUME TokenInv, SessionInv, Rights!TokenNext \/ Rights!SessionNext
  PROVE  TokenInv'
<1>0. /\ RevokerTyped /\ NonceIsRevoked /\ << >> \in Seq(Nonces)
  BY DEF TokenInv
<1>1. ASSUME UNCHANGED <<revoked, lines, revoker, settled, spoilt>>, expiry' \in [Nonces -> Nat] PROVE TokenInv'
  <2>1. RevokerTyped' /\ NonceIsRevoked'
    BY <1>0, <1>1 DEF RevokerTyped, NonceIsRevoked
  <2>2. Filed => Filed'
    BY <1>1 DEF Filed, Rights!Writing, Rights!ToSet
  <2> QED BY <1>1, <2>1, <2>2 DEF TokenInv
<1>2. ASSUME NEW n \in Nonces, NEW ttl \in 0..1, Rights!Issue(n, ttl) PROVE TokenInv'
  <2>1. expiry' \in [Nonces -> Nat]
    <3>1. clock + ttl \in Nat /\ Rights!Forever \in Nat
      BY RightsAssumption DEF Rights!Forever, Rights!BoundsAssumption, SessionInv
    <3> QED BY <1>0, <1>2, <3>1 DEF Rights!Issue, RevokerTyped
  <2> QED BY <1>1, <1>2, <2>1 DEF Rights!Issue
<1>3. ASSUME Rights!Restart PROVE TokenInv'
  <2>1. /\ revoked' = Rights!ToSet(lines) /\ spoilt' = (spoilt \/ Rights!Writing # {})
        /\ revoker' = [u \in Threads |-> [at |-> "idle", nonce |-> 0, text |-> << >>]]
        /\ UNCHANGED <<expiry, lines, settled>>
    BY <1>3 DEF Rights!Restart, Rights!Load, Rights!Quiet
  <2>2. revoked' \in SUBSET Nonces /\ IsFiniteSet(revoked')
    BY <1>0, <2>1, LoadIsFinite DEF RevokerTyped
  <2>3. spoilt' \in BOOLEAN
    BY <1>0, <2>1 DEF RevokerTyped
  <2>4. RevokerTyped'
    BY <1>0, <2>1, <2>2, <2>3 DEF RevokerTyped
  <2>5. NonceIsRevoked' /\ Rights!Writing' = {}
    BY <2>1 DEF NonceIsRevoked, Rights!Writing
  <2>6. ASSUME ~spoilt' PROVE Filed'
    <3>1. settled \subseteq Rights!ToSet(lines)
      BY <2>1, <2>6 DEF TokenInv, Filed
    <3>2. Rights!ToSet(lines)' = Rights!ToSet(lines)
      BY <2>1 DEF Rights!ToSet
    <3> QED BY <2>1, <2>5, <3>1, <3>2 DEF Filed
  <2> QED BY <2>4, <2>5, <2>6 DEF TokenInv
<1>4. ASSUME \/ Rights!Tick
             \/ \E ttl \in 1..2 : Rights!Create(ttl) \/ \E t \in Threads : Rights!RefreshCreate(t, ttl)
             \/ \E s \in sessions : Rights!EndSession(s) \/ \E t \in Threads : Rights!RefreshVerify(t, s)
      PROVE  TokenInv'
  <2>1. UNCHANGED Rights!tokenVars
    BY <1>4 DEF Rights!Tick, Rights!Create, Rights!RefreshCreate, Rights!EndSession, Rights!RefreshVerify
  <2> QED BY <1>0, <1>1, <2>1 DEF Rights!tokenVars, RevokerTyped
<1> QED BY <1>2, <1>3, <1>4, RevokeStep DEF Rights!TokenNext, Rights!SessionNext

\* A fresh sid is above all there are.
LEMMA FreshIsAbove ==
  ASSUME SessionInv
  PROVE  Rights!Fresh \in Nat \ {0} /\ \A s \in sessions : s.sid < Rights!Fresh
<1> DEFINE S == {s.sid : s \in sessions} \cup {0}
<1>1. MaxSessions \in Nat /\ S \in SUBSET (0..MaxSessions) /\ S # {}
  BY RightsAssumption DEF SessionInv, Rights!BoundsAssumption
<1>2. \A s \in sessions : s.sid \in S
  OBVIOUS
<1>3. Rights!Fresh = 1 + Rights!Max(S)
  BY DEF Rights!Fresh
<1> HIDE DEF S
<1>4. Rights!Max(S) \in S /\ \A m \in S : Rights!Max(S) >= m
  BY <1>1, HasGreatest DEF Rights!Max
<1>5. Rights!Max(S) \in Nat /\ \A m \in S : m \in Nat
  <2>1. S \subseteq Nat
    BY <1>1
  <2> QED BY <1>4, <2>1
<1>6. ASSUME NEW s \in sessions PROVE s.sid < Rights!Fresh
  <2>1. Rights!Max(S) >= s.sid /\ s.sid \in Nat
    BY <1>2, <1>4, <1>5
  <2> QED BY <1>3, <1>5, <2>1
<1> QED BY <1>3, <1>5, <1>6

\* The steps of sessions keep theirs, those of tokens leave it alone.
LEMMA SessionStep ==
  ASSUME SessionInv, Rights!TokenNext \/ Rights!SessionNext
  PROVE  SessionInv'
<1>0. {Leeway, MaxClock, MaxSessions} \subseteq Nat
  BY RightsAssumption DEF Rights!BoundsAssumption
<1>1. ASSUME UNCHANGED <<clock, restarts, sessions, refresher>> PROVE SessionInv'
  BY <1>1 DEF SessionInv
<1>2. CASE Rights!Tick
  BY <1>2 DEF Rights!Tick, Rights!sessionVars, SessionInv
<1>3. CASE Rights!Restart
  BY <1>3 DEF Rights!Restart, SessionInv
<1>4. ASSUME NEW ttl \in 1..2, NEW l \in 1..MaxSessions, l <= Rights!Fresh, Rights!Fresh <= MaxSessions,
             sessions' = sessions \cup {[sid |-> Rights!Fresh, exp |-> clock + ttl, line |-> l]},
             refresher' \in [Threads -> sessions \cup {Rights!NoSession}],
             UNCHANGED <<clock, restarts>>
      PROVE  SessionInv'
  <2>1. Rights!Fresh \in 1..MaxSessions /\ clock + ttl \in Nat
    BY <1>0, <1>4, FreshIsAbove DEF SessionInv
  <2>2. sessions' \subseteq [sid : 1..MaxSessions, exp : Nat, line : 1..MaxSessions]
    BY <1>4, <2>1 DEF SessionInv
  <2>3. \A s \in sessions' : s.line <= s.sid
    BY <1>4 DEF SessionInv
  <2>4. refresher' \in [Threads -> sessions' \cup {Rights!NoSession}]
    BY <1>4
  <2> QED BY <1>4, <2>2, <2>3, <2>4 DEF SessionInv, Rights!NoSession
<1>5. ASSUME NEW ttl \in 1..2, Rights!Create(ttl) PROVE SessionInv'
  <2>1. Rights!Fresh \in 1..MaxSessions /\ Rights!Fresh <= Rights!Fresh
    BY <1>0, <1>5, FreshIsAbove DEF Rights!Create
  <2> QED BY <1>4, <1>5, <2>1 DEF Rights!Create, SessionInv
<1>6. ASSUME NEW ttl \in 1..2, NEW t \in Threads, Rights!RefreshCreate(t, ttl) PROVE SessionInv'
  <2>1. refresher[t] \in sessions
    BY <1>6 DEF Rights!RefreshCreate, SessionInv
  <2>2. refresher[t].line \in 1..MaxSessions /\ refresher[t].line <= refresher[t].sid /\ refresher[t].sid \in 1..MaxSessions
    BY <2>1 DEF SessionInv
  <2>3. refresher[t].line <= Rights!Fresh
    BY <1>0, <2>1, <2>2, FreshIsAbove
  <2>4. refresher' \in [Threads -> sessions \cup {Rights!NoSession}]
    BY <1>6 DEF Rights!RefreshCreate, SessionInv
  <2> QED BY <1>4, <1>6, <2>2, <2>3, <2>4 DEF Rights!RefreshCreate
<1>7. ASSUME NEW t \in Threads, NEW s \in sessions, Rights!RefreshVerify(t, s) PROVE SessionInv'
  BY <1>7 DEF Rights!RefreshVerify, SessionInv
<1>8. ASSUME NEW t \in Threads, NEW n \in Nonces,
             Rights!RevokeAdd(t, n) \/ Rights!FlushOpen(t) \/ Rights!FlushSort(t) \/ Rights!FlushWrite(t)
      PROVE  SessionInv'
  BY <1>1, <1>8 DEF Rights!RevokeAdd, Rights!FlushOpen, Rights!FlushSort, Rights!FlushWrite, Rights!sessionVars
<1>9. ASSUME NEW t \in Threads, Rights!FlushOpen(t) \/ Rights!FlushSort(t) \/ Rights!FlushWrite(t) PROVE SessionInv'
  BY <1>1, <1>9 DEF Rights!FlushOpen, Rights!FlushSort, Rights!FlushWrite, Rights!sessionVars
<1>10. ASSUME NEW n \in Nonces, NEW ttl \in 0..1, Rights!Issue(n, ttl) PROVE SessionInv'
  BY <1>1, <1>10 DEF Rights!Issue, Rights!sessionVars
<1>11. ASSUME NEW s \in sessions, Rights!EndSession(s) PROVE SessionInv'
  BY <1>1, <1>11 DEF Rights!EndSession
<1> QED
  BY <1>2, <1>3, <1>5, <1>6, <1>7, <1>8, <1>9, <1>10, <1>11 DEF Rights!TokenNext, Rights!SessionNext

\* A line that is over stays so, whatever happens in this process.
LEMMA LineStaysOver ==
  ASSUME SessionInv, Rights!TokenNext \/ Rights!SessionNext
  PROVE  Rights!LineStep
<1>0. clock \in Nat /\ restarts \in Nat /\ Leeway \in Nat /\ \A s \in sessions : s.exp \in Nat
  BY RightsAssumption DEF SessionInv, Rights!BoundsAssumption
<1> SUFFICES ASSUME restarts' = restarts, NEW r \in sessions, Rights!LineOver(r.line)
             PROVE  Rights!LineOver(r.line)'
  BY DEF Rights!LineStep
<1>1. PICK k : k = r.line
  OBVIOUS
<1>2. /\ \A s \in sessions : s.line = k => ~Rights!Accepted(s)
      /\ \A t \in Threads : refresher[t] = Rights!NoSession \/ refresher[t].line # k
  BY <1>1 DEF Rights!LineOver
<1>3. ASSUME \A s \in sessions : ~Rights!Accepted(s) => ~Rights!Accepted(s)',
             \A s \in sessions' \ sessions : s.line # k,
             \A t \in Threads : refresher'[t] = Rights!NoSession \/ refresher'[t].line # k
      PROVE  Rights!LineOver(k)'
  <2>1. \A s \in sessions' : s.line = k => ~Rights!Accepted(s)'
    BY <1>2, <1>3
  <2> QED BY <1>3, <2>1 DEF Rights!LineOver, Rights!NoSession
<1>4. ASSUME clock' \in Nat, clock <= clock', ended \subseteq ended'
      PROVE  \A s \in sessions : ~Rights!Accepted(s) => ~Rights!Accepted(s)'
  <2>1. ASSUME NEW s \in sessions, ~Rights!Accepted(s) PROVE ~Rights!Accepted(s)'
    <3>1. s.exp \in Nat
      BY <1>0
    <3>2. CASE s.sid \in ended
      BY <1>4, <3>2 DEF Rights!Accepted
    <3>3. CASE ~(s.exp + Leeway >= clock)
      <4>1. ~(s.exp + Leeway >= clock')
        BY <1>0, <1>4, <3>1, <3>3
      <4> QED BY <4>1 DEF Rights!Accepted
    <3> QED BY <2>1, <3>2, <3>3 DEF Rights!Accepted
  <2> QED BY <2>1
<1>5. ASSUME Rights!Tick PROVE Rights!LineOver(k)'
  BY <1>0, <1>2, <1>3, <1>4, <1>5, <1>1 DEF Rights!Tick, Rights!sessionVars
<1>6. ASSUME Rights!Restart PROVE Rights!LineOver(k)'
  BY <1>0, <1>6 DEF Rights!Restart
<1>7. ASSUME UNCHANGED <<clock, sessions, refresher>>, ended \subseteq ended' PROVE Rights!LineOver(k)'
  BY <1>0, <1>2, <1>3, <1>4, <1>7
<1>8. ASSUME NEW t \in Threads,
             \/ \E n \in Nonces : Rights!RevokeAdd(t, n)
             \/ Rights!FlushOpen(t) \/ Rights!FlushSort(t) \/ Rights!FlushWrite(t)
      PROVE  Rights!LineOver(k)'
  BY <1>7, <1>8 DEF Rights!RevokeAdd, Rights!FlushOpen, Rights!FlushSort, Rights!FlushWrite, Rights!sessionVars
<1>9. ASSUME \/ \E n \in Nonces : \E ttl \in 0..1 : Rights!Issue(n, ttl)
             \/ \E s \in sessions : Rights!EndSession(s)
      PROVE  Rights!LineOver(k)'
  BY <1>7, <1>9 DEF Rights!Issue, Rights!EndSession, Rights!sessionVars
<1>10. ASSUME NEW ttl \in 1..2, Rights!Create(ttl) PROVE Rights!LineOver(k)'
  <2>1. k # Rights!Fresh
    BY <1>0, <1>1, FreshIsAbove, RightsAssumption DEF SessionInv, Rights!BoundsAssumption
  <2>2. \A s \in sessions' \ sessions : s.line # k
    BY <1>10, <2>1 DEF Rights!Create
  <2>3. clock' = clock /\ ended' = ended /\ refresher' = refresher
    BY <1>10 DEF Rights!Create
  <2> QED BY <1>0, <1>2, <1>3, <1>4, <2>2, <2>3
<1>11. ASSUME NEW ttl \in 1..2, NEW t \in Threads, Rights!RefreshCreate(t, ttl) PROVE Rights!LineOver(k)'
  <2>1. \A s \in sessions' \ sessions : s.line # k
    BY <1>2, <1>11 DEF Rights!RefreshCreate
  <2>2. clock' = clock /\ ended' = ended /\ refresher' = [refresher EXCEPT ![t] = Rights!NoSession]
    BY <1>11 DEF Rights!RefreshCreate
  <2>3. \A u \in Threads : refresher'[u] = Rights!NoSession \/ refresher'[u].line # k
    BY <1>2, <2>2 DEF SessionInv
  <2> QED BY <1>0, <1>3, <1>4, <2>1, <2>2, <2>3
<1>12. ASSUME NEW t \in Threads, NEW s \in sessions, Rights!RefreshVerify(t, s) PROVE Rights!LineOver(k)'
  <2>1. s.line # k
    BY <1>2, <1>12 DEF Rights!RefreshVerify, Rights!Refreshable
  <2>2. clock' = clock /\ ended' = ended /\ sessions' = sessions /\ refresher' = [refresher EXCEPT ![t] = s]
    BY <1>12 DEF Rights!RefreshVerify
  <2>3. \A u \in Threads : refresher'[u] = Rights!NoSession \/ refresher'[u].line # k
    BY <1>2, <2>1, <2>2 DEF SessionInv
  <2> QED BY <1>0, <1>3, <1>4, <2>2, <2>3
<1>13. Rights!LineOver(k)'
  BY <1>5, <1>6, <1>8, <1>9, <1>10, <1>11, <1>12 DEF Rights!TokenNext, Rights!SessionNext
<1> QED BY <1>1, <1>13

\* Two prefixes of one sequence: the shorter is one of the longer.
LEMMA PrefixesCompare ==
  ASSUME NEW S, NEW a \in Seq(S), NEW b \in Seq(S), NEW p \in Seq(S),
         Rights!IsPrefix(a, p), Rights!IsPrefix(b, p)
  PROVE  Rights!IsPrefix(a, b) \/ Rights!IsPrefix(b, a)
<1>1. Len(a) \in Nat /\ Len(b) \in Nat /\ Len(p) \in Nat /\ Len(a) <= Len(p) /\ Len(b) <= Len(p)
  BY DEF Rights!IsPrefix
<1>2. ASSUME NEW x \in Seq(S), NEW y \in Seq(S)
      PROVE  Rights!IsPrefix(x, y) <=> Len(x) <= Len(y) /\ \A i \in 1..Len(x) : x[i] = y[i]
  <2>1. ASSUME Len(x) <= Len(y)
        PROVE  SubSeq(x, 1, Len(x)) = SubSeq(y, 1, Len(x)) <=> \A i \in 1..Len(x) : x[i] = y[i]
    <3>1. SubSeq(x, 1, Len(x)) = [i \in 1..Len(x) |-> x[i]] /\ SubSeq(y, 1, Len(x)) = [i \in 1..Len(x) |-> y[i]]
      BY <2>1
    <3> QED BY <3>1
  <2> QED BY <2>1 DEF Rights!IsPrefix
<1>3. (\A i \in 1..Len(a) : a[i] = p[i]) /\ (\A i \in 1..Len(b) : b[i] = p[i])
  BY <1>2
<1>4. CASE Len(a) <= Len(b)
  BY <1>1, <1>2, <1>3, <1>4
<1>5. CASE Len(b) <= Len(a)
  BY <1>1, <1>2, <1>3, <1>5
<1> QED BY <1>1, <1>4, <1>5

\* A prefix is one of what goes on, and not all of it.
LEMMA PrefixGoesOn ==
  ASSUME NEW S, NEW a \in Seq(S), NEW b \in Seq(S), NEW x \in S, Rights!IsPrefix(a, b)
  PROVE  Rights!IsStrictPrefix(a, b \o <<x>>)
<1> DEFINE c == b \o <<x>>
<1>1. /\ Len(a) \in Nat /\ Len(b) \in Nat /\ Len(a) <= Len(b)
      /\ SubSeq(a, 1, Len(a)) = SubSeq(b, 1, Len(a))
  BY DEF Rights!IsPrefix
<1>2. c \in Seq(S) /\ Len(c) = Len(b) + 1 /\ \A i \in 1..Len(b) : c[i] = b[i]
  OBVIOUS
<1> HIDE DEF c
<1>3. SubSeq(c, 1, Len(a)) = SubSeq(b, 1, Len(a))
  BY <1>1, <1>2
<1>4. Len(a) <= Len(c) /\ Len(a) # Len(c)
  BY <1>1, <1>2
<1>5. Rights!IsPrefix(a, c) /\ a # c
  BY <1>1, <1>3, <1>4 DEF Rights!IsPrefix
<1> QED BY <1>5 DEF c, Rights!IsStrictPrefix

\* A name is granted by a held one exactly when they have a meaning in common.
LEMMA MatchesOverlap == Rights!MatchIsOverlap
<1> DEFINE Parts == {"a", "b", "c", "d"}
           Concrete == {n.path : n \in Rights!Names} \cup {n.path \o <<"d">> : n \in Rights!Names}
<1>0. \A n \in Rights!Names : n.path \in Seq(Parts) /\ n.wild \in BOOLEAN /\ n = [path |-> n.path, wild |-> n.wild]
  <2>1. <<"a">> \in Seq(Parts) /\ <<"b">> \in Seq(Parts)
    OBVIOUS
  <2>2. <<"a", "b">> \in Seq(Parts) /\ <<"a", "c">> \in Seq(Parts)
    OBVIOUS
  <2> DEFINE Paths == {<<"a">>, <<"b">>, <<"a", "b">>, <<"a", "c">>}
  <2>3. Paths \subseteq Seq(Parts)
    BY <2>1, <2>2
  <2>4. Rights!Names = [path : Paths, wild : BOOLEAN]
    BY DEF Rights!Names
  <2> HIDE DEF Paths, Parts
  <2>5. \A n \in Rights!Names : n.path \in Paths /\ n.wild \in BOOLEAN /\ n = [path |-> n.path, wild |-> n.wild]
    BY <2>4
  <2> QED BY <2>3, <2>5
<1>1. \A n \in Rights!Names : n.path \in Concrete /\ n.path \o <<"d">> \in Concrete
  OBVIOUS
<1>2. \A p \in Concrete : p \in Seq(Parts)
  <2>1. \A n \in Rights!Names : n.path \o <<"d">> \in Seq(Parts)
    BY <1>0
  <2> QED BY <1>0, <2>1
<1>3. \A n \in Rights!Names : Rights!Meant(n) = IF n.wild THEN {p \in Concrete : Rights!IsStrictPrefix(n.path, p)} ELSE {n.path}
  BY DEF Rights!Meant
<1> HIDE DEF Concrete
<1> SUFFICES ASSUME NEW c \in Rights!Names, NEW r \in Rights!Names
             PROVE  Rights!HasCapability({c}, r) <=> Rights!Meant(c) \cap Rights!Meant(r) # {}
  BY DEF Rights!MatchIsOverlap
<1>4. Rights!HasCapability({c}, r) <=> c = r \/ Rights!Under(c, r) \/ Rights!Under(r, c)
  BY DEF Rights!HasCapability
<1>5. c.path \in Seq(Parts) /\ r.path \in Seq(Parts)
  BY <1>0
<1>6. CASE ~c.wild /\ ~r.wild
  <2>1. ~Rights!Under(c, r) /\ ~Rights!Under(r, c)
    BY <1>6 DEF Rights!Under
  <2>2. Rights!Meant(c) = {c.path} /\ Rights!Meant(r) = {r.path}
    BY <1>3, <1>6
  <2>3. c.wild = r.wild
    BY <1>0, <1>6
  <2>4. c = r <=> c.path = r.path
    BY <1>0, <2>3
  <2> QED BY <1>4, <2>1, <2>2, <2>4
<1>7. ASSUME NEW w \in {c, r}, NEW n \in {c, r}, w.wild, ~n.wild
      PROVE  /\ Rights!Under(n, w) <=> Rights!Meant(w) \cap Rights!Meant(n) # {}
             /\ ~Rights!Under(w, n) /\ w # n
  <2>1. w \in Rights!Names /\ n \in Rights!Names
    OBVIOUS
  <2>2. Rights!Meant(n) = {n.path} /\ n.path \in Concrete
    BY <1>1, <1>3, <1>7, <2>1
  <2>3. Rights!Meant(w) = {p \in Concrete : Rights!IsStrictPrefix(w.path, p)}
    BY <1>3, <1>7, <2>1
  <2>4. Rights!Under(n, w) <=> Rights!IsStrictPrefix(w.path, n.path)
    BY <1>7 DEF Rights!Under, Rights!IsStrictPrefix
  <2>5. ~Rights!Under(w, n)
    BY <1>7 DEF Rights!Under
  <2> QED BY <1>7, <2>2, <2>3, <2>4, <2>5
<1>8. CASE c.wild /\ r.wild
  <2>1. /\ Rights!Meant(c) = {p \in Concrete : Rights!IsStrictPrefix(c.path, p)}
        /\ Rights!Meant(r) = {p \in Concrete : Rights!IsStrictPrefix(r.path, p)}
    BY <1>3, <1>8
  <2>2. (Rights!Under(c, r) <=> Rights!IsPrefix(r.path, c.path)) /\ (Rights!Under(r, c) <=> Rights!IsPrefix(c.path, r.path))
    BY <1>8 DEF Rights!Under
  <2>3. ASSUME NEW a \in {c, r}, NEW b \in {c, r}, Rights!IsPrefix(a.path, b.path)
        PROVE  Rights!IsStrictPrefix(a.path, b.path \o <<"d">>)
    <3>1. "d" \in Parts /\ a.path \in Seq(Parts) /\ b.path \in Seq(Parts)
      BY <1>5
    <3> HIDE DEF Parts
    <3> QED BY <2>3, <3>1, PrefixGoesOn
  <2>4. \A n \in {c, r} : Rights!IsPrefix(n.path, n.path)
    BY <1>5 DEF Rights!IsPrefix
  <2>5. ASSUME NEW a \in {c, r}, NEW b \in {c, r}, Rights!IsPrefix(a.path, b.path)
        PROVE  \E p \in Concrete : Rights!IsStrictPrefix(a.path, p) /\ Rights!IsStrictPrefix(b.path, p)
    BY <1>1, <2>3, <2>4, <2>5
  <2>6. ASSUME NEW p \in Concrete, Rights!IsStrictPrefix(c.path, p), Rights!IsStrictPrefix(r.path, p)
        PROVE  Rights!IsPrefix(c.path, r.path) \/ Rights!IsPrefix(r.path, c.path)
    <3> HIDE DEF Parts
    <3> QED BY <1>2, <1>5, <2>6, PrefixesCompare DEF Rights!IsStrictPrefix
  <2>7. c = r => Rights!IsPrefix(c.path, r.path)
    BY <2>4
  <2> QED BY <1>4, <2>1, <2>2, <2>5, <2>6, <2>7
<1>9. CASE c.wild /\ ~r.wild
  BY <1>4, <1>7, <1>9
<1>10. CASE ~c.wild /\ r.wild
  BY <1>4, <1>7, <1>10
<1> QED BY <1>6, <1>8, <1>9, <1>10

\* What a grant is worth only falls with time.
LEMMA GrantsOnlyRunOut == Rights!GrantsRunOut
<1> SUFFICES ASSUME NEW g \in Rights!Grants, NEW t \in Rights!Times \ {0}, Rights!GrantValid(g, t)
             PROVE  Rights!GrantValid(g, t - 1)
  BY DEF Rights!GrantsRunOut
<1>1. Rights!Forever \in Nat
  BY RightsAssumption DEF Rights!Forever, Rights!BoundsAssumption
<1>2. t \in Nat /\ g.expires \in Nat
  BY <1>1 DEF Rights!Times, Rights!Grants
<1>3. t < g.expires => t - 1 < g.expires
  BY <1>2
<1> QED BY <1>3 DEF Rights!GrantValid

\* So every step of tokens and sessions is as promised.
LEMMA RightsStepHolds ==
  ASSUME TokenInv, SessionInv, Rights!TokenNext \/ Rights!SessionNext
  PROVE  Rights!RevokedStaysRevoked' /\ Rights!LineStep
<1>1. TokenInv'
  BY TokenStep
<1>2. Rights!RevokedStaysRevoked'
  BY <1>1 DEF TokenInv, Filed, Rights!RevokedStaysRevoked, Rights!Verifies
<1> QED BY <1>2, LineStaysOver

-----------------------------------------------------------------------------
(* The composition: a behaviour exercises one component, and the others'   *)
(* invariants hold as they did at the start.                               *)
OwnersInv == LockInv /\ QuotaInv /\ CostInv /\ QueueInv /\ ListenInv
ServersInv == McpInv /\ HttpInv /\ ChannelInv /\ (scenario = "mail" => MailInv)
BusesInv ==
  /\ scenario # "daemon bus" => EventsInv
  /\ scenario # "events" => HandlesInv
  /\ SignalInv /\ MemoryInv
ServicesInv == OwnersInv /\ ServersInv /\ BusesInv /\ RightsInv

\* All components start with their invariants.
LEMMA ServicesStart == ServicesInit => ServicesInv
<1> SUFFICES ASSUME ServicesInit PROVE ServicesInv
  OBVIOUS
<1>1. Init /\ Team!Init /\ Rights!LockInit /\ Mail!Init /\ Money!Init /\ Gates!Init /\ Buses!Init
      /\ Rights!Init
  BY DEF ServicesInit
<1>2. OwnersInv
  BY <1>1, LockStart, MoneyStart, MailStart DEF OwnersInv
<1>3. ServersInv
  BY <1>1, McpStart, HttpStart, ChannelStart, TeamMailStart DEF ServersInv
<1>4. BusesInv
  BY <1>1, EventsStart, BarrierStart DEF BusesInv
<1>5. RightsInv
  BY <1>1, RightsStart DEF RightsInv
<1> QED BY <1>2, <1>3, <1>4, <1>5 DEF ServicesInv

\* Locks, budgets and queues keep theirs.
LEMMA OwnersStep == OwnersInv /\ [ServicesNext]_allVars => OwnersInv'
<1> SUFFICES ASSUME OwnersInv, [ServicesNext]_allVars PROVE OwnersInv'
  OBVIOUS
<1>1. Rights!LockNext \/ UNCHANGED lockVars
  BY DEF ServicesNext, allVars
<1>2. LockInv'
  <2>1. CASE UNCHANGED lockVars
    BY <2>1 DEF OwnersInv, LockInv, lockVars, Rights!LockTyped, Rights!HolderHolds
  <2> QED BY <1>1, <2>1, LockStep DEF OwnersInv
<1>3. Money!QuotaNext \/ Money!CostNext \/ UNCHANGED budgetVars
  BY DEF ServicesNext, allVars, Budgeting
<1>4. Money!QuotaNext => UNCHANGED Money!costVars
  BY DEF Money!QuotaNext, Money!Charge, Money!Resume, Money!LogCharge, Money!LogPause,
     Money!AppendFails, Money!Restart
<1>5. Money!CostNext => UNCHANGED Money!quotaVars
  BY DEF Money!CostNext, Money!Record, Money!RegisterPricing, Money!RecordTokens, Money!CheckBudget
<1>6. QuotaInv'
  <2>1. CASE UNCHANGED Money!quotaVars
    BY <2>1 DEF OwnersInv, QuotaInv, QuotaTyped, Money!quotaVars
  <2> QED BY <1>3, <1>5, <2>1, QuotaStep DEF OwnersInv, budgetVars, Money!quotaVars
<1>7. CostInv'
  <2>1. CASE UNCHANGED Money!costVars
    BY <2>1 DEF OwnersInv, CostInv, Money!costVars, Money!Ceiling
  <2> QED BY <1>3, <1>4, <2>1, CostStep DEF OwnersInv, budgetVars, Money!costVars
<1>8. Mail!QueueNext \/ Mail!BusNext \/ UNCHANGED mailVars
  BY DEF ServicesNext, allVars, Queues
<1>9. Mail!QueueNext => UNCHANGED Mail!busVars
  BY DEF Mail!QueueNext, Mail!Connect, Mail!Disconnect, Mail!Publish, Mail!Deliver,
     Mail!HandlerReturns, Mail!HandlerRaises, Mail!Ack, Mail!AckRaises, Mail!Nack
<1>10. Mail!BusNext => UNCHANGED Mail!mqVars
  BY DEF Mail!BusNext, Mail!Emit, Mail!Subscribe, Mail!Unsubscribe, Mail!Take
<1>11. QueueInv'
  <2>1. CASE UNCHANGED Mail!mqVars
    BY <2>1 DEF OwnersInv, QueueInv, Waits, Mail!mqVars
  <2> QED BY <1>8, <1>10, <2>1, QueueStep DEF OwnersInv, mailVars, Mail!mqVars
<1>12. ListenInv'
  <2>1. CASE UNCHANGED Mail!busVars
    BY <2>1 DEF OwnersInv, ListenInv, Mail!busVars
  <2> QED BY <1>8, <1>9, <2>1, ListenStep DEF OwnersInv, mailVars, Mail!busVars
<1> QED BY <1>2, <1>6, <1>7, <1>11, <1>12 DEF OwnersInv

\* The clients of servers, the channels and the team's mail keep theirs.
LEMMA ServersStep == ServersInv /\ [ServicesNext]_allVars => ServersInv'
<1> SUFFICES ASSUME ServersInv, [ServicesNext]_allVars PROVE ServersInv'
  OBVIOUS
<1>1. Next \/ UNCHANGED vars
  BY DEF ServicesNext, allVars
<1>2. McpInv'
  <2>1. CASE UNCHANGED vars
    BY <2>1 DEF ServersInv, McpInv, McpTyped, Numbered, Answering, LoopsEnd, ResponsesMatch,
       NobodyWaitsOnADeadServer, Settled, vars
  <2>2. CASE Next
    BY <2>2, CallerStep, ServerStep DEF ServersInv, Next
  <2> QED BY <1>1, <2>1, <2>2
<1>3. \/ Gates!HttpNext \/ Gates!ChannelNext
      \/ UNCHANGED Gates!httpVars /\ UNCHANGED Gates!channelVars
  BY DEF ServicesNext, allVars, Adapting, gatewayVars, Gates!httpVars, Gates!channelVars,
     Gates!AcpNext, Gates!A2aNext, Gates!SkillNext, Gates!WorkNext
<1>4. HttpInv'
  <2>1. CASE UNCHANGED Gates!httpVars
    BY <2>1 DEF ServersInv, HttpInv, HttpTyped, OneStarts, ClosingCloses, Starting, Closing,
       Gates!OneClientIsOpen, Gates!Awaits, Gates!httpVars
  <2> QED BY <1>3, <2>1, HttpStep DEF ServersInv, Gates!ChannelNext
<1>5. ChannelInv'
  <2>1. CASE UNCHANGED Gates!channelVars
    BY <2>1 DEF ServersInv, ChannelInv, ChannelTyped, GotIsPosted, HandedInOrder, GotInOrder,
       Passed, Gates!channelVars
  <2> QED BY <1>3, <2>1, ChannelStep DEF ServersInv, Gates!HttpNext
<1>6. (scenario = "mail" => MailInv)'
  <2>1. CASE UNCHANGED teamVars /\ scenario' = scenario
    BY <2>1 DEF ServersInv, MailInv, MailTyped, ListedWasSent, ConsumedWasRead,
       Team!WrittenMailArrives, teamVars
  <2>2. CASE Team!MailNext /\ scenario' = scenario
    BY <2>2, TeamMailStep DEF ServersInv
  <2>3. CASE scenario # "mail" /\ scenario' = scenario
    BY <2>3
  <2>4. scenario' = scenario /\ (scenario = "mail" => Team!MailNext \/ UNCHANGED teamVars)
    BY DEF ServicesNext, allVars, Teaming
  <2> QED BY <2>1, <2>2, <2>3, <2>4
<1> QED BY <1>2, <1>4, <1>5, <1>6 DEF ServersInv

\* So do the buses of one process, the barrier and the memory queue.
LEMMA BusesStep == BusesInv /\ [ServicesNext]_allVars => BusesInv'
<1> SUFFICES ASSUME BusesInv, [ServicesNext]_allVars PROVE BusesInv'
  OBVIOUS
<1>0. scenario' = scenario
  BY DEF ServicesNext, allVars
<1>1. \/ scenario = "events" /\ Buses!BusNext
      \/ scenario = "daemon bus" /\ Buses!DaemonNext
      \/ UNCHANGED Buses!busVars /\ UNCHANGED Buses!daemonVars
  BY DEF ServicesNext, allVars, Delivering, deliveryVars, Buses!busVars, Buses!daemonVars,
     Buses!BarrierNext, Buses!MemoryNext, Buses!GraphNext
<1>2. Buses!BarrierNext \/ UNCHANGED Buses!barrierVars
  BY DEF ServicesNext, allVars, Delivering, deliveryVars, Buses!barrierVars,
     Buses!BusNext, Buses!DaemonNext, Buses!MemoryNext, Buses!GraphNext
<1>3. Buses!MemoryNext \/ UNCHANGED Buses!memoryVars
  BY DEF ServicesNext, allVars, Delivering, deliveryVars, Buses!memoryVars,
     Buses!BusNext, Buses!DaemonNext, Buses!BarrierNext, Buses!GraphNext
<1>4. ASSUME UNCHANGED Buses!busVars, UNCHANGED Buses!daemonVars
      PROVE  (scenario # "daemon bus" => EventsInv)' /\ (scenario # "events" => HandlesInv)'
  <2>1. UNCHANGED <<publisher, events, due, got>> /\ UNCHANGED <<handles, line>>
    BY <1>4 DEF Buses!busVars, Buses!daemonVars
  <2>2. EventsInv => EventsInv'
    <3>1. GivenTyped /\ PublisherTyped => GivenTyped' /\ PublisherTyped'
      BY <2>1 DEF GivenTyped, PublisherTyped
    <3>2. HandedOut => HandedOut'
      BY <2>1 DEF HandedOut, Once, Told, ToTell
    <3>3. NoHandles => NoHandles'
      BY <2>1 DEF NoHandles
    <3> QED BY <3>1, <3>2, <3>3 DEF EventsInv
  <2>3. HandlesInv => HandlesInv'
    <3>1. GivenTyped => GivenTyped'
      BY <2>1 DEF GivenTyped
    <3>2. LineTyped => LineTyped'
      BY <2>1 DEF LineTyped
    <3>3. Queued => Queued'
      BY <2>1 DEF Queued, LineInOrder, Rising, Told, InLine
    <3>4. NoPublisher => NoPublisher'
      BY <2>1 DEF NoPublisher
    <3> QED BY <3>1, <3>2, <3>3, <3>4 DEF HandlesInv
  <2> QED BY <1>0, <2>2, <2>3 DEF BusesInv
<1>5. (scenario # "daemon bus" => EventsInv)' /\ (scenario # "events" => HandlesInv)'
  BY <1>0, <1>1, <1>4, EventsStep, HandlesStep DEF BusesInv
<1>6. SignalInv'
  <2>1. CASE UNCHANGED Buses!barrierVars
    BY <2>1 DEF BusesInv, SignalInv, Buses!barrierVars
  <2> QED BY <1>2, <2>1, SignalStep DEF BusesInv
<1>7. MemoryInv'
  <2>1. CASE UNCHANGED Buses!memoryVars
    BY <2>1 DEF BusesInv, MemoryInv, Buses!UpdatesHaveATimer, Buses!memoryVars
  <2> QED BY <1>3, <2>1, MemoryStep DEF BusesInv
<1> QED BY <1>5, <1>6, <1>7 DEF BusesInv

\* So do tokens and sessions, and each of their steps is as promised.
LEMMA RightsKeep == RightsInv /\ [ServicesNext]_allVars => RightsInv' /\ RightsStep
<1> SUFFICES ASSUME RightsInv, [ServicesNext]_allVars PROVE RightsInv' /\ RightsStep
  OBVIOUS
<1>1. Rights!TokenNext \/ Rights!SessionNext \/ UNCHANGED rightVars
  BY DEF ServicesNext, allVars, Granting
<1>2. Rights!MatchIsOverlap /\ Rights!GrantsRunOut
  BY MatchesOverlap, GrantsOnlyRunOut
<1>3. CASE Rights!TokenNext \/ Rights!SessionNext
  BY <1>2, <1>3, TokenStep, SessionStep, RightsStepHolds DEF RightsInv, RightsStep
<1>4. CASE UNCHANGED rightVars
  <2>1. TokenInv'
    <3>1. UNCHANGED <<expiry, revoked, lines, revoker, settled, spoilt>>
      BY <1>4 DEF rightVars
    <3>2. RevokerTyped /\ NonceIsRevoked => RevokerTyped' /\ NonceIsRevoked'
      BY <3>1 DEF RevokerTyped, NonceIsRevoked
    <3>3. Filed => Filed'
      BY <3>1 DEF Filed, Rights!Writing, Rights!ToSet
    <3> QED BY <3>1, <3>2, <3>3 DEF RightsInv, TokenInv
  <2>2. SessionInv'
    BY <1>4 DEF RightsInv, SessionInv, rightVars
  <2>3. Rights!RevokedStaysRevoked'
    BY <2>1 DEF TokenInv, Filed, Rights!RevokedStaysRevoked, Rights!Verifies
  <2>4. Rights!LineStep
    BY <1>4 DEF rightVars, Rights!LineStep, Rights!LineOver, Rights!Accepted
  <2> QED BY <1>2, <2>1, <2>2, <2>3, <2>4 DEF RightsInv, RightsStep
<1> QED BY <1>1, <1>3, <1>4

\* So all invariants hold always.
LEMMA ServicesInvariant == ServicesSpec => []ServicesInv
<1>1. ServicesInv /\ [ServicesNext]_allVars => ServicesInv'
  BY OwnersStep, ServersStep, BusesStep, RightsKeep DEF ServicesInv
<1> QED BY <1>1, ServicesStart, PTL DEF ServicesSpec

-----------------------------------------------------------------------------
\* DistributedLock: the key stays that of the client that holds the lock until
\* its time is over, whatever others release (the compare-and-delete script).
THEOREM LockIsHeld == ServicesSpec => []HolderHolds
<1>1. ServicesInv => HolderHolds
  BY DEF ServicesInv, OwnersInv, LockInv, HolderHolds
<1> QED BY <1>1, ServicesInvariant, PTL

\* QuotaTracker: a goal over its budget is paused, unless it was excused, and the
\* log knows of no more than was charged; CostTracker: whoever brings the total
\* over the limit is told, and no usage is lost before somebody was.
THEOREM OverrunsAreTold == ServicesSpec => []BudgetsKept
<1>1. ServicesInv => BudgetsKept
  BY DEF ServicesInv, OwnersInv, QuotaInv, CostInv, BudgetsKept, Money!BudgetsKept
<1> QED BY <1>1, ServicesInvariant, PTL

\* StdioMcpClient: a caller is given the answer to its request, and nobody waits
\* for a server whose end was noticed; StreamableHttpMcpClient: the client in use
\* is the one that is open.
THEOREM CallersAreAnswered == ServicesSpec => []RequestsAnswered
<1>1. ServicesInv => RequestsAnswered
  BY DEF ServicesInv, ServersInv, McpInv, HttpInv, RequestsAnswered
<1> QED BY <1>1, ServicesInvariant, PTL

\* TeamRegistry's inboxes and the channel adapters: a message that was written
\* before a reader listed the inbox is read, and a cursor passes over none that
\* no caller was given, but for those a page of Slack left out.
THEOREM MailArrives == ServicesSpec => []WrittenMailArrives
<1>1. ServicesInv => WrittenMailArrives
  BY ChannelsHand DEF ServicesInv, ServersInv, MailInv, WrittenMailArrives
<1> QED BY <1>1, ServicesInvariant, PTL

\* mq, event_bus, daemon_bus, event_barrier and debounced_memory_queue: a message
\* waits, is held or was handled; listeners are given each event of their time
\* once; a set event keeps nobody waiting; what is pending has a timer.
THEOREM DeliveryIsWhole == ServicesSpec => []NothingDropped
<1>1. SignalInv => Buses!SignalSeen
  BY DEF SignalInv, Buses!SignalSeen
<1>2. BusesInv => EventsInv \/ HandlesInv
  BY DEF BusesInv
<1>3. ServicesInv => NothingDropped
  BY <1>1, <1>2, GivenOnce, NothingIsDropped
  DEF ServicesInv, OwnersInv, BusesInv, MemoryInv, NothingDropped
<1> QED BY <1>3, ServicesInvariant, PTL

\* permission_contract, signed_token_session and tool_governance: a token whose
\* revocation returned is refused from then on, in later processes too, unless
\* two calls wrote the revocation file at once or one died there; a line of
\* sessions that is over stays so in its process; a capability is granted exactly
\* when it has a name in common with a held one, and waiting revives no grant.
THEOREM RevocationLasts == ServicesSpec => RightsEnd
<1>1. ServicesInv /\ [ServicesNext]_allVars => [RightsStep]_allVars
  BY RightsKeep DEF ServicesInv
<1> QED BY <1>1, ServicesInvariant, PTL DEF ServicesSpec, RightsEnd

=============================================================================

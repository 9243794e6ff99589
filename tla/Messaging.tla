----------------------------- MODULE Messaging -----------------------------
(***************************************************************************)
(* obase.mq: MQPublisher and MQConsumer on one durable RabbitMQ queue, and *)
(* EventBus on one Redis channel.                                          *)
(*                                                                         *)
(* External: the broker, which keeps a message until it is acknowledged    *)
(* and takes back what a lost connection held; Redis, which hands a        *)
(* message to those subscribed at that moment; and the handlers, which     *)
(* may raise.  Bodies and routing are abstracted.                          *)
(*                                                                         *)
(* A definition named X_Slip is X with a slip a programmer could make; the *)
(* properties are checked to notice it.  Nothing else uses it.             *)
(***************************************************************************)
EXTENDS FiniteSets, Naturals

CONSTANTS
  Msgs,        \* bound: each is published at most once
  Consumers,
  Listeners,   \* EventBus.subscribe calls
  MaxDrops     \* bound: connections lost

VARIABLES
  open,        \* the publisher and the consumers that are connected
  queue,       \* messages the broker may deliver
  unacked,     \* pairs: consumer, and the message its connection holds
  work,        \* deliveries in _on_message: consumer, message, step, and whether
               \* the connection it came on is still there
  published,   \* ghost: messages whose publish returned
  handled,     \* ghost: messages a handler returned for
  drops,
  listening,   \* the listeners in their loop
  inbox,       \* per listener, the events Redis has for it
  seen,        \* per listener, the events given to its handler
  sent         \* ghost: per listener, the events published while it listened

mqVars == <<open, queue, unacked, work, published, handled, drops>>
busVars == <<listening, inbox, seen, sent>>
vars == <<mqVars, busVars>>

Publisher == "publisher"
Steps == {"handler", "ack", "nack"}

Init ==
  /\ open = {} /\ queue = {} /\ unacked = {} /\ work = {}
  /\ published = {} /\ handled = {} /\ drops = 0
  /\ listening = {}
  /\ inbox = [l \in Listeners |-> {}] /\ seen = [l \in Listeners |-> {}]
  /\ sent = [l \in Listeners |-> {}]

\* connect, of either side; one that fails raises and changes nothing.
Connect(x) ==
  /\ x \notin open /\ open' = open \cup {x}
  /\ UNCHANGED <<queue, unacked, work, published, handled, drops, busVars>>

\* publish returns when the broker has the message, and raises otherwise,
\* which leaves open whether the broker has it.
Publish(m) ==
  /\ Publisher \in open /\ m \notin published
  /\ queue' = queue \cup {m}
  /\ \/ published' = published \cup {m}
     \/ UNCHANGED published
  /\ UNCHANGED <<open, unacked, work, handled, drops, busVars>>

\* The broker delivers one message at a time (prefetch_count=1).
Deliver(c, m) ==
  /\ c \in open /\ m \in queue /\ \A n \in Msgs : <<c, n>> \notin unacked
  /\ queue' = queue \ {m} /\ unacked' = unacked \cup {<<c, m>>}
  /\ work' = work \cup {[by |-> c, msg |-> m, step |-> "handler", live |-> TRUE]}
  /\ UNCHANGED <<open, published, handled, drops, busVars>>

\* _on_message: the handler, then the ack; a handler that raises, the nack.
Leads(w, s) == work' = (work \ {w}) \cup {[w EXCEPT !.step = s]}
AckOn_Slip == {"handler", "ack"}
AckOn == {"ack"}
HandlerReturns(w) ==
  /\ w \in work /\ w.step = "handler" /\ Leads(w, "ack")
  /\ handled' = handled \cup {w.msg}
  /\ UNCHANGED <<open, queue, unacked, published, drops, busVars>>
HandlerRaises(w) ==
  /\ w \in work /\ w.step = "handler" /\ Leads(w, "nack")
  /\ UNCHANGED <<open, queue, unacked, published, handled, drops, busVars>>

\* ack and nack settle a message while its connection is there.  On one that
\* is gone ack raises, so nack is tried, and what that raises ends the call.
Ack(w) ==
  /\ w \in work /\ w.step \in AckOn /\ w.live
  /\ unacked' = unacked \ {<<w.by, w.msg>>} /\ work' = work \ {w}
  /\ UNCHANGED <<open, queue, published, handled, drops, busVars>>
AckRaises(w) ==
  /\ w \in work /\ w.step = "ack" /\ ~w.live /\ Leads(w, "nack")
  /\ UNCHANGED <<open, queue, unacked, published, handled, drops, busVars>>
Nack(w) ==
  /\ w \in work /\ w.step = "nack" /\ work' = work \ {w}
  /\ IF w.live THEN unacked' = unacked \ {<<w.by, w.msg>>} /\ queue' = queue \cup {w.msg}
     ELSE UNCHANGED <<unacked, queue>>
  /\ UNCHANGED <<open, published, handled, drops, busVars>>

\* close, or a connection that is lost: what it held goes back to the queue,
\* what was being handled goes on without it.
Disconnect(x) ==
  /\ x \in open /\ drops < MaxDrops /\ drops' = drops + 1
  /\ open' = open \ {x}
  /\ queue' = queue \cup {m \in Msgs : <<x, m>> \in unacked}
  /\ unacked' = {u \in unacked : u[1] # x}
  /\ work' = {IF w.by = x THEN [w EXCEPT !.live = FALSE] ELSE w : w \in work}
  /\ UNCHANGED <<published, handled, busVars>>

-----------------------------------------------------------------------------
\* EventBus: subscribe, publish to those who listen, and the loop, where a
\* handler that raises is logged and the next message taken.
Subscribe(l) ==
  /\ l \notin listening /\ sent[l] = {} /\ listening' = listening \cup {l}
  /\ UNCHANGED <<inbox, seen, sent, mqVars>>
Emit(m) ==
  /\ \A l \in Listeners : m \notin sent[l]
  /\ inbox' = [l \in Listeners |-> IF l \in listening THEN inbox[l] \cup {m} ELSE inbox[l]]
  /\ sent' = [l \in Listeners |-> IF l \in listening THEN sent[l] \cup {m} ELSE sent[l]]
  /\ UNCHANGED <<listening, seen, mqVars>>
Take(l, m) ==
  /\ l \in listening /\ m \in inbox[l]
  /\ inbox' = [inbox EXCEPT ![l] = @ \ {m}] /\ seen' = [seen EXCEPT ![l] = @ \cup {m}]
  /\ UNCHANGED <<listening, sent, mqVars>>

\* Its timeout, or its cancellation: the listener unsubscribes.
Unsubscribe(l) ==
  /\ l \in listening /\ listening' = listening \ {l}
  /\ inbox' = [inbox EXCEPT ![l] = {}]
  /\ UNCHANGED <<seen, sent, mqVars>>

QueueNext ==
  \/ \E x \in {Publisher} \cup Consumers : Connect(x) \/ Disconnect(x)
  \/ \E m \in Msgs : Publish(m) \/ \E c \in Consumers : Deliver(c, m)
  \/ \E w \in work : HandlerReturns(w) \/ HandlerRaises(w) \/ Ack(w) \/ AckRaises(w) \/ Nack(w)
BusNext ==
  \/ \E m \in Msgs : Emit(m)
  \/ \E l \in Listeners : Subscribe(l) \/ Unsubscribe(l) \/ \E m \in Msgs : Take(l, m)
Next == QueueNext \/ BusNext

Spec == Init /\ [][Next]_vars

-----------------------------------------------------------------------------
\* Every variable has its type; a connection holds one message at a time.
TypeOK ==
  /\ open \subseteq {Publisher} \cup Consumers
  /\ queue \cup published \cup handled \subseteq Msgs
  /\ unacked \subseteq Consumers \X Msgs
  /\ work \subseteq [by: Consumers, msg: Msgs, step: Steps, live: BOOLEAN]
  /\ \A c \in Consumers : Cardinality({u \in unacked : u[1] = c}) <= 1
  /\ drops \in 0..MaxDrops /\ listening \subseteq Listeners
  /\ \A l \in Listeners : inbox[l] \cup seen[l] \subseteq sent[l] /\ sent[l] \subseteq Msgs

\* No published message is dropped: it waits in the queue, is held by a
\* connection, or a handler returned for it; and a listener was or will be
\* given every event of its time.
NothingDropped ==
  /\ published \subseteq queue \cup handled \cup {u[2] : u \in unacked}
  /\ \A l \in listening : sent[l] = inbox[l] \cup seen[l]

=============================================================================

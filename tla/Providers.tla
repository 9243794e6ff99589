------------------------------ MODULE Providers ------------------------------
(***************************************************************************)
(* Models behind an API: which ones register_default_providers makes the   *)
(* defaults (llm: DefaultsNext), what of a conversation each caller sends  *)
(* (llm: ConversationNext), what is known of a provider's balance and      *)
(* health (provider_live_state: LiveNext) and calls that are retried       *)
(* (retry: RetryNext).                                                     *)
(*                                                                         *)
(* External: the keys in the settings, the services, their balances.       *)
(* Amounts and rates are small integers; a system text is a number, 0 for  *)
(* none.                                                                   *)
(***************************************************************************)
EXTENDS Naturals, SequencesExt, FiniteSetsExt

CONSTANTS
  Window,       \* Rolling403Rate's window
  MinBalance,   \* min_balance_usd
  MaxRetries,   \* max_retries, and max_attempts less one
  MaxEvents     \* bound: calls to the provider that are recorded

Keys == {"deepseek", "qwen", "anthropic", "openai", "gemini"}
LlmNames == Keys \cup {"default", "claude"}
VlmNames == {"default", "claude", "gemini"}
ModelCallers == {"deepseek", "qwen", "anthropic", "openai", "gemini"}
Utterances == {[role |-> "user", text |-> 0], [role |-> "assistant", text |-> 0]}
            \cup {[role |-> "system", text |-> n] : n \in {1, 2}}

VARIABLES
  llms, vlms,  \* the registry's: per name, whose caller; "none"
  defaults,    \* the latest register_default_providers: not, done, conflict
  keys,        \* the keys it found
  preset,      \* ghost: names that were taken before it
  talk,        \* a call's messages, its system text, and whose caller it is
  sent,        \* what was sent: the messages, and the system text beside them
  record,      \* ProviderLiveState of a provider: balance and health as last told
  balance,     \* what the account has
  answers,     \* Rolling403Rate's events: TRUE for a 403
  seen,        \* ghost: all of them
  attempt,     \* a retried call: the outcomes of its calls so far
  told,        \* what the caller was told: pending, value, error
  waited       \* the delays between them

defaultVars == <<llms, vlms, defaults, keys, preset>>
talkVars == <<talk, sent>>
liveVars == <<record, balance, answers, seen>>
retryVars == <<attempt, told, waited>>
vars == <<defaultVars, talkVars, liveVars, retryVars>>

Unknown == 99  \* a balance nobody asked for yet
Unsent == [messages |-> << >>, system |-> 99]
Init ==
  /\ llms = [n \in LlmNames |-> "none"] /\ vlms = [n \in VlmNames |-> "none"]
  /\ defaults = "not" /\ keys = {} /\ preset = {}
  /\ talk = [caller |-> "openai", messages |-> << >>, system |-> 0] /\ sent = Unsent
  /\ record = [balance |-> Unknown, health |-> "unknown"] /\ balance = 2
  /\ answers = << >> /\ seen = << >>
  /\ attempt = << >> /\ told = "pending" /\ waited = << >>

-----------------------------------------------------------------------------
\* An application registers a model of its own.
Preset(n) ==
  /\ defaults = "not" /\ preset = {} /\ llms[n] = "none"
  /\ llms' = [llms EXCEPT ![n] = "own"] /\ preset' = {n} /\ UNCHANGED <<vlms, defaults, keys>>

\* register_default_providers: what it registers, in order.
Llm(n, who) == <<[store |-> "llm", name |-> n, who |-> who]>>
Vlm(n, who) == <<[store |-> "vlm", name |-> n, who |-> who]>>
When(condition, steps) == IF condition THEN steps ELSE << >>
LlmSteps(k) ==
  When("deepseek" \in k, Llm("default", "deepseek") \o Llm("deepseek", "deepseek"))
  \o When("qwen" \in k, When("deepseek" \notin k, Llm("default", "qwen")) \o Llm("qwen", "qwen"))
  \o When("anthropic" \in k, When(k \cap {"deepseek", "qwen"} = {}, Llm("default", "anthropic"))
       \o Llm("anthropic", "anthropic") \o Llm("claude", "anthropic"))
  \o When("openai" \in k, When(k \cap {"deepseek", "qwen", "anthropic"} = {}, Llm("default", "openai"))
       \o Llm("openai", "openai"))
VlmSteps(k) ==
  When("anthropic" \in k, Vlm("default", "anthropic") \o Vlm("claude", "anthropic"))
  \o When("gemini" \in k, When("anthropic" \notin k, Vlm("default", "gemini")) \o Vlm("gemini", "gemini")
       \o Llm("gemini", "gemini") \o When(k = {"gemini"}, Llm("default", "gemini")))
Steps(k) ==
  LlmSteps(k) \o VlmSteps(k) \o When(k = {}, Llm("default", "mock"))
  \o When(k \cap {"anthropic", "gemini"} = {}, Vlm("default", "mock"))
\* A name that is taken is a conflict: it ends there, and what it did stays.
Taken(s) == IF s.store = "llm" THEN llms[s.name] # "none" ELSE vlms[s.name] # "none"
Registered(k) ==
  LET s == Steps(k)
  IN {s[i] : i \in {j \in DOMAIN s : \A m \in 1..j : ~Taken(s[m])}}
Store(old, kind, k) ==
  [n \in DOMAIN old |->
     IF \E s \in Registered(k) : s.store = kind /\ s.name = n
     THEN (CHOOSE s \in Registered(k) : s.store = kind /\ s.name = n).who ELSE old[n]]
RegisterDefaults(k) ==
  /\ llms' = Store(llms, "llm", k) /\ vlms' = Store(vlms, "vlm", k)
  /\ defaults' = IF \E s \in ToSet(Steps(k)) : Taken(s) THEN "conflict" ELSE "done"
  /\ keys' = (IF defaults' = "done" THEN k ELSE keys) /\ UNCHANGED preset
DefaultsNext ==
  /\ UNCHANGED <<talkVars, liveVars, retryVars>>
  /\ (\E n \in LlmNames : Preset(n)) \/ \E k \in SUBSET Keys : RegisterDefaults(k)

-----------------------------------------------------------------------------
\* The caller adds a message, or the text of its system argument.
AddMessage(m) ==
  /\ sent = Unsent /\ Len(talk.messages) < 3 /\ talk' = [talk EXCEPT !.messages = Append(@, m)]
  /\ UNCHANGED sent
SetCall(who, text) ==
  /\ sent = Unsent /\ talk.messages = << >> /\ talk' = [talk EXCEPT !.caller = who, !.system = text]
  /\ UNCHANGED sent

\* ClaudeCaller and GeminiCaller send one system text apart from the messages:
\* the last there is.  Gemini knows two roles.
Ours(m) == m.role # "system"
Apart(t) ==
  [messages |-> SelectSeq(t.messages, Ours),
   system |-> LET systems == SelectSeq(t.messages, LAMBDA m : ~Ours(m))
              IN IF systems = << >> THEN t.system ELSE Last(systems).text]
\* The others send all messages, the system text in front.
InFront(t) ==
  [messages |-> IF t.system = 0 THEN t.messages ELSE <<[role |-> "system", text |-> t.system]>> \o t.messages,
   system |-> 0]
ClaudeCall(t) == t.caller = "anthropic" /\ sent' = Apart(t)
GeminiCall(t) == t.caller = "gemini" /\ sent' = Apart(t)
DeepSeekCall(t) == t.caller = "deepseek" /\ sent' = InFront(t)
OpenAICall(t) == t.caller = "openai" /\ sent' = InFront(t)
QwenCall(t) == t.caller = "qwen" /\ sent' = InFront(t)
ConversationNext ==
  /\ UNCHANGED <<defaultVars, liveVars, retryVars>>
  /\ \/ \E m \in Utterances : AddMessage(m)
     \/ \E who \in ModelCallers : \E n \in 0..2 : SetCall(who, n)
     \/ /\ sent = Unsent /\ UNCHANGED talk
        /\ ClaudeCall(talk) \/ GeminiCall(talk) \/ DeepSeekCall(talk) \/ OpenAICall(talk) \/ QwenCall(talk)

-----------------------------------------------------------------------------
\* Rolling403Rate keeps a window of answers; its health is the share of others.
Record(is403) ==
  /\ Len(seen) < MaxEvents /\ seen' = Append(seen, is403)
  /\ answers' = (IF Len(answers) = Window THEN Append(Tail(answers), is403) ELSE Append(answers, is403))
  /\ UNCHANGED <<record, balance>>
Failures(events) == Cardinality({i \in DOMAIN events : events[i]})
HealthyHalf(events) == events = << >> \/ 2 * Failures(events) <= Len(events)

\* fal_balance_probe: the balance when the account tells it, else the rate.
Spend(b) == b < balance /\ balance' = b /\ UNCHANGED <<record, answers, seen>>
ProbeOk(b) == b > MinBalance
\* update keeps what it is not told; healthy knows of no harm in an unknown.
UpdateBalance == record' = [record EXCEPT !.balance = balance] /\ UNCHANGED <<balance, answers, seen>>
UpdateHealth ==
  record' = [record EXCEPT !.health = IF HealthyHalf(answers) THEN "good" ELSE "bad"] /\ UNCHANGED <<balance, answers, seen>>
Poor(b) == b # Unknown /\ b < MinBalance
Healthy(r) == ~Poor(r.balance) /\ r.health # "bad"
LiveNext ==
  /\ UNCHANGED <<defaultVars, talkVars, retryVars>>
  /\ \/ UpdateBalance \/ UpdateHealth
     \/ \E e \in BOOLEAN : Record(e)
     \/ \E b \in 0..1 : Spend(b)

-----------------------------------------------------------------------------
\* execute and retry_with_backoff: a call, and after a failure that is worth it
\* a delay, doubled each time up to the limit, and the next.
Tries == MaxRetries + 1
Delay(n) == IF 2^n > 4 THEN 4 ELSE 2^n
More(n) == n < Tries
Call(outcome) ==
  /\ told = "pending" /\ attempt' = Append(attempt, outcome)
  /\ IF outcome = "transient" /\ More(Len(attempt'))
     THEN waited' = Append(waited, Delay(Len(attempt))) /\ UNCHANGED told
     ELSE told' = (IF outcome = "value" THEN "value" ELSE "error") /\ UNCHANGED waited
RetryNext ==
  /\ UNCHANGED <<defaultVars, talkVars, liveVars>>
  /\ \E outcome \in {"value", "transient", "fatal"} : Call(outcome)

Next == DefaultsNext \/ ConversationNext \/ LiveNext \/ RetryNext
Spec == Init /\ [][Next]_vars

-----------------------------------------------------------------------------
\* Every variable has its type.
TypeOK ==
  /\ llms \in [LlmNames -> Keys \cup {"none", "own", "mock"}]
  /\ vlms \in [VlmNames -> Keys \cup {"none", "own", "mock"}]
  /\ defaults \in {"not", "done", "conflict"} /\ keys \subseteq Keys
  /\ Len(talk.messages) <= 3 /\ record.health \in {"unknown", "good", "bad"}
  /\ balance \in 0..2 /\ Len(answers) <= Window /\ Len(seen) <= MaxEvents
  /\ told \in {"pending", "value", "error"} /\ Len(waited) < Len(attempt) + 1

\* Once it returned, there is a default of each kind, the first in the documented
\* order that has a key, and every model with a key has its name.
Preference == <<"deepseek", "qwen", "anthropic", "openai", "gemini">>
FirstOf(k) == IF k = {} THEN "mock" ELSE Head(SelectSeq(Preference, LAMBDA n : n \in k))
DefaultsAreFirst ==
  defaults = "done" =>
    /\ llms["default"] = FirstOf(keys) /\ \A n \in keys : llms[n] = n
    /\ vlms["default"] = FirstOf(keys \cap {"anthropic", "gemini"})

\* What users and models said is sent in its order and in full, and some system
\* text is sent, in front or apart, when there is one: that of the argument
\* unless the messages have one.
ConversationIsWhole ==
  sent # Unsent =>
    LET given == SelectSeq(talk.messages, LAMBDA m : m.role = "system")
        first == IF sent.messages # << >> /\ ~Ours(Head(sent.messages)) THEN Head(sent.messages).text ELSE sent.system
    IN /\ SelectSeq(sent.messages, Ours) = SelectSeq(talk.messages, Ours)
       /\ given = << >> => first = talk.system
       /\ given # << >> /\ sent.system # 0 => sent.system = Last(given).text
       /\ given # << >> /\ sent.system = 0 =>
            ToSet(given) \subseteq ToSet(sent.messages)

\* The rate is that of the latest answers; an account that was found under the
\* least balance is not used, and the probe differs from that at the least
\* balance only.
HealthIsRecent ==
  /\ answers = SubSeq(seen, IF Len(seen) > Window THEN Len(seen) - Window + 1 ELSE 1, Len(seen))
  /\ record.balance # Unknown =>
       /\ record.balance < MinBalance => ~Healthy(record)
       /\ record.balance # MinBalance /\ record.health # "bad" => (Healthy(record) <=> ProbeOk(record.balance))

\* A retried call is called until it answers, fails for good or was tried often
\* enough; the caller is told what the last one came to, and the delays double.
RetriesEnd ==
  /\ Len(attempt) <= Tries /\ \A i \in 1..Len(attempt) - 1 : attempt[i] = "transient"
  /\ told = "error" => Last(attempt) = "fatal" \/ (Last(attempt) = "transient" /\ Len(attempt) = Tries)
  /\ told = "value" => Last(attempt) = "value"
  /\ \A i \in 2..Len(waited) : waited[i] \in {waited[i - 1], 2 * waited[i - 1]}

=============================================================================

---------------------------- MODULE Capabilities ----------------------------
(***************************************************************************)
(* What lets an actor act, and how it is taken back: capability tokens     *)
(* and their revocation file (permission_contract), signed sessions        *)
(* (signed_token_session), tool grants (tool_governance), and the lock of  *)
(* obase.cache (DistributedLock), a Redis key set if absent, with a time   *)
(* to live, and deleted by a script when it still holds the token of the   *)
(* lock object.                                                            *)
(*                                                                         *)
(* A token is known by its nonce, a session by its sid; signatures and     *)
(* encodings only carry them.  A step of revoke is what happens between    *)
(* two operations another thread may see: the set is changed under a lock, *)
(* the file is rewritten outside of it, opened (and emptied) first and     *)
(* filled when it is closed.  A restart reads the file.                    *)
(*                                                                         *)
(* The lock's clients are processes; each uses a lock object of its own.   *)
(* External: Redis, one command at a time.  Its time is the choice of when *)
(* a key lapses and a wait runs out.                                       *)
(*                                                                         *)
(* A definition named X_Slip is X with a slip a programmer could make; the *)
(* properties are checked to notice it.  Nothing else uses it.             *)
(***************************************************************************)
EXTENDS Naturals, SequencesExt, FiniteSetsExt

CONSTANTS
  Nonces,       \* the tokens' nonces, numbers: the file is sorted
  Threads,      \* threads that revoke tokens and refresh sessions
  Leeway,       \* leeway_s
  MaxClock,     \* bound: time passes
  MaxSessions,  \* bound: session ids
  MaxRestarts,  \* bound
  Clients,      \* of the lock
  NoToken       \* its key is not there

TokenAssumption == NoToken \notin Clients
BoundsAssumption == Nonces \subseteq Nat /\ {Leeway, MaxClock, MaxSessions} \subseteq Nat

VARIABLES
  clock,
  expiry,       \* per nonce: 0 never issued, else when its token runs out
  revoked,      \* CapabilityRevoker._revoked
  lines,        \* its file
  revoker,      \* per thread: its revoke call, the nonce and what it will write
  settled,      \* ghost: nonces whose revoke returned
  spoilt,       \* ghost: two calls wrote the file at once, or one died writing it
  sessions,     \* session tokens: sid, expiry and (ghost) line: the first sid of its refreshes
  ended,        \* SignedTokenSession._revoked
  refresher,    \* per thread: the token whose refresh has verified it, if any
  restarts,
  key,          \* the client whose token the lock's key holds
  client,       \* per client: "out", "trying", "in" or "crashed"
  lapsed        \* ghost: clients whose key has lapsed since they took it

tokenVars == <<expiry, revoked, lines, revoker, settled, spoilt>>
sessionVars == <<sessions, ended, refresher>>
rightVars == <<clock, tokenVars, sessionVars, restarts>>
lockVars == <<key, client, lapsed>>

Forever == MaxClock + 2
Times == 0..Forever
NoSession == [sid |-> 0, exp |-> 0, line |-> 0]
Quiet == [at |-> "idle", nonce |-> 0, text |-> << >>]

Init ==
  /\ clock = 0 /\ restarts = 0
  /\ expiry = [n \in Nonces |-> 0] /\ revoked = {} /\ lines = << >>
  /\ revoker = [t \in Threads |-> Quiet] /\ settled = {} /\ spoilt = FALSE
  /\ sessions = {} /\ ended = {} /\ refresher = [t \in Threads |-> NoSession]

Tick == clock < MaxClock /\ clock' = clock + 1 /\ UNCHANGED <<tokenVars, sessionVars, restarts>>

-----------------------------------------------------------------------------
\* has_capability: a name is a path, with "*" behind it or not; "a.*" is about
\* every name that begins with "a.", and may stand on either side.
Names == [path: {<<"a">>, <<"b">>, <<"a", "b">>, <<"a", "c">>}, wild: BOOLEAN]
Under(c, w) ==
  w.wild /\ IsPrefix(w.path, c.path) /\ (c.path # w.path \/ c.wild)
HasCapability(held, required) ==
  \E c \in held : c = required \/ Under(c, required) \/ Under(required, c)

\* The names a capability is about, those with a further part included.
Meant(c) ==
  LET Concrete == {n.path : n \in Names} \cup {n.path \o <<"d">> : n \in Names}
  IN IF c.wild THEN {p \in Concrete : IsStrictPrefix(c.path, p)} ELSE {c.path}

\* Grant.is_valid: not revoked, and before its end (0: none, Forever + 1: not
\* a date).
Grants == [revoked: BOOLEAN, expires: 0..Forever + 1]
GrantValid(g, now) ==
  ~g.revoked /\ (g.expires = 0 \/ (g.expires <= Forever /\ now < g.expires))

-----------------------------------------------------------------------------
\* issue_capability_token, with a time to live or without.
Issue(n, ttl) ==
  /\ expiry[n] = 0
  /\ expiry' = [expiry EXCEPT ![n] = IF ttl > 0 THEN clock + ttl ELSE Forever]
  /\ UNCHANGED <<clock, revoked, lines, revoker, settled, spoilt, sessionVars, restarts>>

\* verify_capability_token: expired is past the end, not at it.
Expired(n) == clock > expiry[n]
Verifies(n) == expiry[n] > 0 /\ ~Expired(n) /\ n \notin revoked

\* revoke adds the nonce under the lock; _flush then opens the file, which
\* empties it, ...
Step(t, at, text) ==
  revoker' = [revoker EXCEPT ![t] = [at |-> at, nonce |-> revoker[t].nonce, text |-> text]]
Writing == {t \in Threads : revoker[t].at \in {"opened", "sorted"}}
RevokeAdd(t, n) ==
  /\ revoker[t].at = "idle" /\ expiry[n] > 0 /\ n \notin settled
  /\ revoked' = revoked \cup {n}
  /\ revoker' = [revoker EXCEPT ![t] = [at |-> "added", nonce |-> n, text |-> << >>]]
  /\ UNCHANGED <<clock, expiry, lines, settled, spoilt, sessionVars, restarts>>
FlushOpen(t) ==
  /\ revoker[t].at = "added" /\ lines' = << >> /\ Step(t, "opened", << >>)
  /\ spoilt' = (spoilt \/ Writing # {})
  /\ UNCHANGED <<clock, expiry, revoked, settled, sessionVars, restarts>>
\* ... sorts what is revoked by then, ...
Sorted(S) == [i \in 1..Cardinality(S) |-> CHOOSE n \in S : Cardinality({m \in S : m < n}) = i - 1]
FlushSort(t) ==
  /\ revoker[t].at = "opened" /\ Step(t, "sorted", Sorted(revoked))
  /\ UNCHANGED <<clock, expiry, revoked, lines, settled, spoilt, sessionVars, restarts>>
\* ... and writes that over whatever another thread has put there by now.
Over(text, old) == text \o SubSeq(old, Len(text) + 1, Len(old))
FlushWrite(t) ==
  /\ revoker[t].at = "sorted" /\ lines' = Over(revoker[t].text, lines)
  /\ settled' = settled \cup {revoker[t].nonce}
  /\ revoker' = [revoker EXCEPT ![t] = Quiet]
  /\ UNCHANGED <<clock, expiry, revoked, spoilt, sessionVars, restarts>>

\* _load, in the next process.
Load == ToSet(lines)

-----------------------------------------------------------------------------
\* create, and the first half of refresh, which is verify: neither expired by
\* more than the leeway nor revoked.
Fresh == 1 + Max({s.sid : s \in sessions} \cup {0})
Accepted(s) == s.exp + Leeway >= clock /\ s.sid \notin ended
Create(ttl) ==
  /\ Fresh <= MaxSessions
  /\ sessions' = sessions \cup
       {[sid |-> Fresh, exp |-> clock + ttl, line |-> Fresh]}
  /\ UNCHANGED <<clock, tokenVars, ended, refresher, restarts>>
Refreshable_Slip(s) == s.exp + Leeway >= clock
Refreshable(s) == Accepted(s)
RefreshVerify(t, s) ==
  /\ refresher[t] = NoSession /\ s \in sessions /\ Refreshable(s)
  /\ refresher' = [refresher EXCEPT ![t] = s]
  /\ UNCHANGED <<clock, tokenVars, sessions, ended, restarts>>
\* The second half: a new token under a new sid, whatever happened since.
RefreshCreate(t, ttl) ==
  /\ refresher[t] # NoSession /\ Fresh <= MaxSessions
  /\ sessions' = sessions \cup
       {[sid |-> Fresh, exp |-> clock + ttl, line |-> refresher[t].line]}
  /\ refresher' = [refresher EXCEPT ![t] = NoSession]
  /\ UNCHANGED <<clock, tokenVars, ended, restarts>>
\* revoke and revoke_session.
EndSession(s) ==
  /\ s \in sessions /\ ended' = ended \cup {s.sid}
  /\ UNCHANGED <<clock, tokenVars, sessions, refresher, restarts>>

\* The process ends, in the middle of a write or not: what is on disk and the
\* tokens that were given out stay; sessions are revoked in memory only.
Restart ==
  /\ restarts < MaxRestarts /\ restarts' = restarts + 1
  /\ revoked' = Load /\ spoilt' = (spoilt \/ Writing # {})
  /\ revoker' = [t \in Threads |-> Quiet]
  /\ ended' = {} /\ refresher' = [t \in Threads |-> NoSession]
  /\ UNCHANGED <<clock, expiry, lines, settled, sessions>>

\* Tokens and sessions share the clock and the process, and nothing else.
TokenNext ==
  \/ Tick \/ Restart \/ \E n \in Nonces : \E ttl \in 0..1 : Issue(n, ttl)
  \/ \E t \in Threads :
       \/ \E n \in Nonces : RevokeAdd(t, n)
       \/ FlushOpen(t) \/ FlushSort(t) \/ FlushWrite(t)
SessionNext ==
  \/ Tick \/ Restart
  \/ \E ttl \in 1..2 : Create(ttl) \/ \E t \in Threads : RefreshCreate(t, ttl)
  \/ \E s \in sessions : EndSession(s) \/ \E t \in Threads : RefreshVerify(t, s)

-----------------------------------------------------------------------------
LockInit ==
  /\ key = NoToken
  /\ client = [c \in Clients |-> "out"] /\ lapsed = {}

Becomes(c, s) == client' = [client EXCEPT ![c] = s]

\* __aenter__: SET NX PX until it succeeds or the deadline has passed.
Enter(c) == client[c] = "out" /\ Becomes(c, "trying") /\ UNCHANGED <<key, lapsed>>
Acquire(c) ==
  /\ client[c] = "trying" /\ key = NoToken
  /\ key' = c /\ Becomes(c, "in") /\ lapsed' = lapsed \ {c}
GiveUp(c) ==
  /\ client[c] = "trying" /\ key # NoToken
  /\ Becomes(c, "out") /\ UNCHANGED <<key, lapsed>>

\* __aexit__: compare and delete in one command.
Released_Slip(c) == NoToken
Released(c) == IF key = c THEN NoToken ELSE key
Exit(c) ==
  /\ client[c] = "in" /\ key' = Released(c)
  /\ Becomes(c, "out") /\ lapsed' = lapsed \ {c}

\* The connection may fail, or the client die, in the critical section.
Crash(c) == client[c] = "in" /\ Becomes(c, "crashed") /\ UNCHANGED <<key, lapsed>>
Recover(c) ==
  /\ client[c] = "crashed" /\ Becomes(c, "out")
  /\ UNCHANGED <<key, lapsed>>

\* The time to live of the key runs out.
Lapse ==
  /\ key # NoToken /\ key' = NoToken
  /\ lapsed' = lapsed \cup {key} /\ UNCHANGED client

LockNext ==
  \/ Lapse
  \/ \E c \in Clients :
       Enter(c) \/ Acquire(c) \/ GiveUp(c) \/ Exit(c) \/ Crash(c) \/ Recover(c)

\* The lock shares nothing with the rest.
vars == <<rightVars, lockVars>>
Next ==
  \/ (TokenNext \/ SessionNext) /\ UNCHANGED lockVars
  \/ LockNext /\ UNCHANGED rightVars

Spec == Init /\ LockInit /\ [][Next]_vars

-----------------------------------------------------------------------------
\* Every variable has its type.
TypeOK ==
  /\ clock \in 0..MaxClock /\ restarts \in 0..MaxRestarts
  /\ expiry \in [Nonces -> Times] /\ revoked \subseteq Nonces /\ ToSet(lines) \subseteq Nonces
  /\ \A t \in Threads :
       /\ revoker[t].at \in {"idle", "added", "opened", "sorted"}
       /\ refresher[t] \in sessions \cup {NoSession}
  /\ settled \subseteq Nonces /\ spoilt \in BOOLEAN
  /\ sessions \subseteq [sid: 1..MaxSessions, exp: Times, line: 1..MaxSessions]
  /\ ended \subseteq 1..MaxSessions
LockTyped ==
  /\ key \in Clients \cup {NoToken}
  /\ client \in [Clients -> {"out", "trying", "in", "crashed"}] /\ lapsed \subseteq Clients

\* A token whose revocation returned is refused from then on, in this process
\* and in those after it, unless calls wrote the revocation file at once or
\* died writing it.
RevokedStaysRevoked == spoilt \/ \A n \in settled : ~Verifies(n)

\* A line of refreshed sessions that has run out or was revoked, with no refresh
\* of it in progress, stays over as long as the process lives.
LineOver(l) ==
  /\ \A s \in sessions : s.line = l => ~Accepted(s)
  /\ \A t \in Threads : refresher[t] = NoSession \/ refresher[t].line # l
LineStep ==
  restarts' = restarts => \A s \in sessions : LineOver(s.line) => LineOver(s.line)'

\* Whoever is in the critical section holds the key until the key lapses: a
\* client whose own key has lapsed does not take away that of the next one.
HolderHolds == \A c \in Clients : client[c] = "in" /\ c \notin lapsed => key = c

\* A required name is granted exactly when it and a held one have a name in
\* common; a grant that is not valid never becomes so by waiting.
MatchIsOverlap ==
  \A c, r \in Names : HasCapability({c}, r) <=> Meant(c) \cap Meant(r) # {}
GrantsRunOut ==
  \A g \in Grants : \A t \in Times \ {0} : GrantValid(g, t) => GrantValid(g, t - 1)

=============================================================================

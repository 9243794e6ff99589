SPECIFICATION ServicesSpec
CONSTANTS
  Callers = {c1, c2}
  Starter = starter
  NoCaller = nobody
  MaxRequests = 3
  MaxSpawns = 2
  Agents = {a1, a2}
  Tasks = {t1, t2}
  Messages = {m1, m2}
  MaxMembers = 3
  Msgs = {m1, m2}
  Consumers = {q1, q2}
  Listeners = {l1, l2}
  MaxDrops = 1
  Costs = {1, 2}
  MaxSpent = 4
  MaxFailures = 2
  Nonces = {1, 2}
  Leeway = 1
  MaxClock = 2
  MaxSessions = 3
  MaxRestarts = 1
  Handlers = {"h", "i"}
  MaxHistory = 1
  MaxPublished = 2
  PageSize = 1
  MaxPosted = 3
  Threads = {"p", "q"}
  Nobody = Nobody
  Absent = Absent
  Torn = Torn
  Limit = 2
  Nodes = {n1, n2, n3}
  Cyclic = Cyclic
  Clients = {k1, k2, k3}
  NoToken = NoToken
INVARIANTS
  TypesOK
  
  WrittenMailArrives
  SequencesAgree
  HolderHolds
  
  BudgetsKept
  
  
PROPERTIES
  RightsEnd
CHECK_DEADLOCK FALSE

SPECIFICATION CoordinationSpec
CONSTANTS
  Rate = 2
  Period = 3
  Timeouts = {1, 4}
  Patient = 99
  MaxCalls = 4
  MaxTime = 7
  Callers = {c1, c2, c3}
  Threshold = 2
  MaxFailures = 6
  Waiters = {w1, w2}
  Deciders = {d1, d2}
  MaxGenerations = 2
  Users = {u1, u2}
  Containers = {"a", "b", "c"}
  MaxSize = 1
  Tasks = {"t", "u"}
  Processes = {"p", "q"}
  Vram = 1
  MaxBlocks = 2
  MaxTexts = 2
  Names = {"m", "n"}
  Keys = {"k", "l"}
  MaxStored = 3
  Limit = 2
  Times = {1}
  Limits = {1, 2}
  Answers = {{}, {1}, {0, 1, 2}}
  Words = {"red", "blue"}
  Collections = {"c", "d"}
  Notes = {"m", "n"}
  Ttl = 1
  MaxRetries = 1
  Window = 2
  MaxClock = 2
  MaxLookups = 2
  MaxMemories = 3
  NoContainer = NoContainer
INVARIANTS
  TypesOK
  LimiterKeepsTime
  ClosedWhileFewFailures
  
  
PROPERTIES
  DecisionDelivered
CHECK_DEADLOCK FALSE

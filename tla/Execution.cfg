SPECIFICATION ExecutionSpec
CONSTANTS
  NStages = 3
  MaxRetries <- RetryFirst
  MaxPauses = 2
  MaxInterrupts = 2
  MaxResumes = 4
  Nodes = {"plan", "build", "ship"}
  Edges <- LoopEdges
  Initial = "plan"
  MaxAttempts = 2
  Checks = {k1}
  Callers = {c1, c2}
  MaxEntries = 3
  MaxRounds = 3
  MaxRestarts = 1
  MaxAbandons = 1
  Lead = c1
  MaxSharedRounds = 2
INVARIANTS
  TypesOK
  StagesKeepTheirData
  ChecksDecide
  HistoryIsAWalk
PROPERTIES
  ExecutionEnds
CHECK_DEADLOCK FALSE

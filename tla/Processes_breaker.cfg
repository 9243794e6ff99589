SPECIFICATION ProcessesSpec
CONSTANTS
  Callers = {c1}
  Threshold = 1
  MaxFailures = 2
  Jobs = {j1, j2}
  BreakerHasIsOpen = FALSE
  Runs = {r1, r2}
  Cancellers = {k1, k2}
  NoRun = NoRun
  MaxLength = 1
  MaxDepth = 1
  Names = {"a", "b"}
  Clients = {"p", "q"}
  MaxIds = 2
PROPERTY
  RespectsBreaker
CHECK_DEADLOCK FALSE

SPECIFICATION FairSpec
CONSTANTS
  a = a
  b = b
  r1 = r1
  f1 = f1
  f2 = f2
  Nodes = {a, b}
  Repairs = {}
  Deps <- FlatDeps
  Clash <- NoClash
  Gated = {}
  Concurrency = 2
  AttemptLimit <- OneEach
  NodeRepairRounds = 0
  RepairRounds = 0
  Prints = {f1}
  Deadline = TRUE
  MaxCrashes = 1
  MaxOps = 1
INVARIANTS
  OneLander
PROPERTIES
  Settles

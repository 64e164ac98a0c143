SPECIFICATION Spec
CONSTANTS
  a = a
  b = b
  r1 = r1
  f1 = f1
  f2 = f2
  Nodes = {a, b}
  Repairs = {r1}
  Deps <- ChainDeps
  Clash <- AllClash
  Gated = {b}
  Concurrency = 2
  AttemptLimit <- TwoForB
  NodeRepairRounds = 1
  RepairRounds = 1
  Prints = {f1}
  Deadline = FALSE
  MaxCrashes = 1
  MaxOps = 1
INVARIANTS
  CompletedLanded
  ChargedFirst
  SavedNotRedone

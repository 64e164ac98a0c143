SPECIFICATION FairSpec
CONSTANTS
  a = a
  b = b
  r1 = r1
  r2 = r2
  f1 = f1
  f2 = f2
  Nodes = {a, b}
  Repairs = {r1, r2}
  Deps <- FlatDeps
  Gated = {b}
  Mode = "whole"
  Required = {}
  Optional = {b}
  Producers = {b}
  Prints = {f1, f2}
  RepairRounds = 2
  Concurrency = 2
  Review = TRUE
  Deadline = TRUE
  Selections = {{b}}
  MaxOps = 1
  MaxCrashes = 1
INVARIANTS
  RepairLedger
PROPERTIES
  AcceptedAsIs
  ProductIsWhole
  RunEnds

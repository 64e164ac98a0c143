SPECIFICATION Spec
CONSTANTS
  a = a
  b = b
  c = c
  Procs = {a, b}
  Host <- OneHost
  Mortal = {b}
  Reborn = {b}
  Forcers = {}
  Stall = TRUE
  Patience = 1
  MaxTries = 3
  NoProc = NoProc
  Files = {f}
  Names = {}
  Ports = {1}
  NoName = NoName
  NoPort = NoPort
  NoOp = NoOp
  Done = Done
  Kinds = {"add", "remove", "port"}
INVARIANT OwnersDifferByEviction
PROPERTY EditsLandWhole

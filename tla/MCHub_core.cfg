SPECIFICATION Spec
CONSTANTS
  r1 = r1
  r2 = r2
  r3 = r3
  Runs = {r1, r2}
  First = r1
  NoRun = NoRun
  Habits = {}
  MaxEdits = 2
  MaxFaults = 1
INVARIANTS  LockFreed 
PROPERTIES HistoryFixed
CHECK_DEADLOCK FALSE

CONSTANTS
  web = web
  console = console
  Procs <- BothProcs
  Operators = {console}
  HasAdapter = {web}
  Prompt = TRUE
  MaxRows = 2
  MaxFanout = 2
  MaxDepth = 1
  MaxCrashes = 2
  MaxOps = 1
SPECIFICATION LiveSpec
INVARIANTS ClaimsBounded RunnerHoldsClaim StartsInOrder NoOrphanWithoutCrash
PROPERTIES KeepsPromise PendingStarts OldOrphanSurfaces
CHECK_DEADLOCK FALSE

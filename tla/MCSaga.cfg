SPECIFICATION Spec
CONSTANTS
  Threads = {main}
  Events <- SettlementEvents
  Commands <- SettlementCommands
  States <- SettlementStates
  First = "requested"
  StartsOn = "TransferRequested"
  EndsOn = {"TransferSettled"}
  Handlers <- SettlementHandlers
  CompOf <- SettlementBothComp
  EmitsOf <- SettlementEmits
  Entry = {"TransferRequested"}
  Idempotent = {}
  Dedupes = TRUE
  OneSecond = TRUE
  Refused = "refused"
  NeedsHuman = "needs_human"
  None = "none"
  MaxDepth = 3
  MaxRetries = 1
  MaxEntries = 1
  MaxCrashes = 2
  MaxObj = 1
INVARIANTS NoDoubleApply SkippedWasApplied NoPhantomCompensation
CHECK_DEADLOCK FALSE

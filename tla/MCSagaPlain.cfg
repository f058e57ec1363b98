SPECIFICATION Spec
CONSTANTS
  Threads = {main}
  Events = {"Asked", "Retried"}
  Commands = {"Hold", "Thank"}
  States = {"new", "busy", "needs_human"}
  First = "new"
  StartsOn = "Asked"
  EndsOn = {}
  Handlers <- ParkHandlers
  CompOf <- NoComp
  EmitsOf <- Silent
  Entry = {"Asked", "Retried"}
  Idempotent = {"Thank"}
  Dedupes = FALSE
  OneSecond = FALSE
  Refused = "refused"
  NeedsHuman = "needs_human"
  None = "none"
  MaxDepth = 5
  MaxRetries = 1
  MaxEntries = 2
  MaxCrashes = 2
  MaxObj = 1
INVARIANTS RedriveAppliesOnce LegFinishedOrReported ParkedKnowsStage
CHECK_DEADLOCK FALSE

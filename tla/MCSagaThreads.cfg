SPECIFICATION Spec
CONSTANTS
  Threads = {one, two}
  Events = {"Opened", "Packed", "Closed"}
  Commands = {"Announce", "Label", "Weigh"}
  States = {"new", "open", "packed"}
  First = "new"
  StartsOn = "Opened"
  EndsOn = {"Closed"}
  Handlers <- ParcelHandlers
  CompOf <- NoComp
  EmitsOf <- ParcelEmits
  Entry = {"Opened", "Packed", "Closed"}
  Idempotent = {}
  Dedupes = TRUE
  OneSecond = TRUE
  Refused = "refused"
  NeedsHuman = "needs_human"
  None = "none"
  MaxDepth = 5
  MaxRetries = 1
  MaxEntries = 3
  MaxCrashes = 0
  MaxObj = 3
INVARIANTS StoreMirrorsLive
CHECK_DEADLOCK FALSE

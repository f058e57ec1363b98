SPECIFICATION FairSpec
CONSTANTS
  Events <- MCEvents
  Commands <- MCCommands
  States <- MCStates
  First = "requested"
  StartsOn = "TransferRequested"
  EndsOn = "TransferSettled"
  Handlers <- MCHandlers
  Refused = "refused"
  CompOf <- MCCompOf
  EmitsOf <- MCEmitsOf
  Carries <- MCCarries
  PoliciesOn <- MCPoliciesOn
  CrossOn = {"TransferRequested", "Noted"}
  Entry = {"Request", "Ping", "Credit", "Credited", "Settle"}
  None = "none"
  MaxDepth = 5
  MaxRows = 2
  MaxCalls = 4
INVARIANTS CompensatedOnce ReversedUndone CrossHandedOver
PROPERTIES CascadeEnds
CHECK_DEADLOCK FALSE

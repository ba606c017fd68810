SPECIFICATION Spec
CHECK_DEADLOCK FALSE
CONSTANTS
  Inventories <- MCInventories
  NextLinks <- MCNextLinks
  Policies <- MCPolicies
  MaxFailures = 1
  GPUs = {1, 3, 4}
  Codes <- MCCodes
  IDsAsked = {1, 2, 3, 4}
  MaxAvailable = 4
  MaxMust = 2
INVARIANT FabricModesUseFabricLinks

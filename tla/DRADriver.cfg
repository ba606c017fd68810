SPECIFICATION FairSpec
CONSTANTS
  Claims = {c1, c2}
  Devices = {d1, d2, d3}
  Allocations <- WithRepeats
  NoClaim = NoClaim
  None = None
INVARIANTS OwnersMatchPrepared GrantSurvives NoSharedDevice ReleaseIsDurable StateFileLoads
PROPERTIES FileIsExclusive Recovers

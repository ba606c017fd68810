SPECIFICATION FairSpec
CONSTANTS
  Devices = {0, 1}
  Unlisted = 2
  Setters = {s1, s2}
  NoList = NoList
INVARIANTS NoLostUpdate GrantedIsUsable
PROPERTIES HealthReachesKubelet GracefulStopEnds

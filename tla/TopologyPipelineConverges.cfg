SPECIFICATION FairSpec
CONSTANTS
  Contents = {good, better, bad}
  Invalid = {bad}
  Nobody = Nobody
  Deployments = {{"controller", "scheduler"}, {"controller", "publisher"}}
  MayRelist = FALSE
  PublishMayFail = TRUE
  TTL = 1
  HeartbeatInterval = 1
  MaxLag = 1
  MaxChanges = 1
PROPERTIES ConsumersConverge ConsumersExpire

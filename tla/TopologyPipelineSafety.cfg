SPECIFICATION Spec
CONSTANTS
  Contents = {good, bad}
  Invalid = {bad}
  Nobody = Nobody
  Deployments = {{"controller", "scheduler"}}
  MayRelist = TRUE
  PublishMayFail = TRUE
  TTL = 1
  HeartbeatInterval = 1
  MaxLag = 2
  MaxChanges = 2
INVARIANTS PipelineType ReadyIsValidated NothingRefused
PROPERTIES NoTakeover GenerationsAdvance

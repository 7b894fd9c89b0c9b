SPECIFICATION FairSpec
CONSTANTS
  Issues <- OneIssue
  Targets = {t1}
  LocalTargets = {}
  Labels = {t1}
  AttemptIds = {a1, a2}
  MaxConcurrentAgents = 1
  TargetCap <- CapOne
  Faults = {"tracker", "unconfirmed", "sigterm", "slow", "raise"}
  Inactive = Inactive
  NoTarget = NoTarget
  NoAttempt = NoAttempt
  t1 = t1
  t2 = t2
  invalid = invalid
  a1 = a1
  a2 = a2
  a3 = a3
PROPERTIES HandoffStops KeepsTrying ShutdownCompletes

SPECIFICATION Spec
CONSTANTS
  Issues <- OneIssue
  Targets = {t1, t2}
  LocalTargets = {t2}
  Labels = {t1, t2, invalid}
  AttemptIds = {a1, a2, a3}
  MaxConcurrentAgents = 1
  TargetCap <- CapOne
  Faults = {"tracker", "unconfirmed", "slow", "raise", "sigterm", "crash"}
  Inactive = Inactive
  NoTarget = NoTarget
  NoAttempt = NoAttempt
  t1 = t1
  t2 = t2
  invalid = invalid
  a1 = a1
  a2 = a2
  a3 = a3
INVARIANTS TypeOK ExecutorAccounted
PROPERTIES RecoveryResolves Owned BlockedLeft

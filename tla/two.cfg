SPECIFICATION Spec
CONSTANTS
  Issues <- TwoIssues
  Targets = {t1}
  LocalTargets = {}
  Labels = {t1}
  AttemptIds = {a1, a2}
  MaxConcurrentAgents = 2
  TargetCap <- CapOne
  Faults = {"tracker", "unconfirmed"}
  Inactive = Inactive
  NoTarget = NoTarget
  NoAttempt = NoAttempt
  t1 = t1
  t2 = t2
  invalid = invalid
  a1 = a1
  a2 = a2
  a3 = a3
INVARIANTS Inv CapsRespected AgentsCapped
PROPERTIES SingleWriter BackoffHeld

CONSTANTS
  Evaluators = {w1, w2}
  Candidates = {watermark, idle}
  Overdue = {overdue}
  Mandatory <- MCMandatory
  Role = iworkAdmin
  admin = admin
  iworkAdmin = iworkAdmin
  watermark = watermark
  idle = idle
  overdue = overdue
  MaxRevision = 2
  MaxCalls = 2
  MaxFaults = 1
  Apart = TRUE
SPECIFICATION Spec
INVARIANTS CompletedIsMaterialised MarksHold
PROPERTIES SnapshotIsEvaluated PageCatchesUp

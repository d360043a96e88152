SPECIFICATION Spec
CONSTANTS
  Invocations = {app, infra}
  Revisions = {r1, r2}
  None = None
  MaxAttempts = 2
SYMMETRY Interchangeable
INVARIANTS TypeOK WorkHoldsLock AppliedOnItsPlan ReleaseReportedTruly UncertaintyKeepsLock
PROPERTIES OnlyOwnerOrOperatorClears
CHECK_DEADLOCK FALSE

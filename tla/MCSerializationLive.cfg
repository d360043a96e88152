SPECIFICATION RunSpec
CONSTANTS
  Invocations = {app, infra}
  Revisions = {r1, r2}
  None = None
  MaxAttempts = 1
PROPERTIES ImplementsTurns EveryRunEnds LocksAreFreed
CHECK_DEADLOCK FALSE

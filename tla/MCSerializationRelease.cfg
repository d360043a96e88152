SPECIFICATION Spec
CONSTANTS
  Invocations = {app, infra}
  Revisions = {r1, r2}
  None = None
  MaxAttempts = 1

INVARIANTS AmbiguousReleaseKeepsLock
CHECK_DEADLOCK FALSE

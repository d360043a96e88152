SPECIFICATION Spec
CONSTANTS
  Keys = {k1, k2}
  OtherNames = {other}
  Parameters = {pointer}
  Arns = {a1, a2}
  JsonKeys = {field}
  ConfigArns = {own}
  Images = {i1, i2}
  Environments = {literals, edited}
  Literals = literals
  None = None
  Unfit = Unfit
  MaxRuns = 2
  MaxChanges = 1
SYMMETRY Interchangeable
INVARIANTS TypeOK RendersTheContract UnwarnedKeysWereSeen NoDriftIsTrue DriftIsTrue
CHECK_DEADLOCK FALSE

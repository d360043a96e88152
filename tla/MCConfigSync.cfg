SPECIFICATION Spec
CONSTANTS
  Syncs = {s1, s2}
  Keys = {k1, k2}
  Values = {old, new}
  Absent = Absent
  Unusable = Unusable
  Exclusive = TRUE
SYMMETRY Interchangeable
INVARIANTS TypeOK SyncedKeysArePresent
PROPERTIES MergesAreAtomic KeysAreKept
CHECK_DEADLOCK FALSE

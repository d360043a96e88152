SPECIFICATION Spec
CONSTANT Scope = {"pointer", "role", "role policy", "cluster", "revision 1", "service", "revision 2"}
INVARIANTS NothingIsForgotten
CHECK_DEADLOCK FALSE

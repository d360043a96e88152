SPECIFICATION FairSpec
CONSTANT Scope = {"pointer", "role", "role policy", "cluster", "revision 1", "service", "revision 2"}
INVARIANTS TypeOK TeardownSuffices
PROPERTIES CleanMeansGone OnlyOwnIsTouched EverythingGoes
CHECK_DEADLOCK FALSE

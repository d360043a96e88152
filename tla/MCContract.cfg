SPECIFICATION Spec
CONSTANTS
  Environments = {"dev", "prod"}
  Keys = {"good", "allowed"}
  Invalid = {}
  Reserved = {}
  SecretShaped = {"allowed"}
  Allowed = {"allowed"}
  Literals <- SomeTexts
  Sources <- SomeSources
  Declared <- OneEnvironment
  MaxEdits = 3
  All = All
  NA = NA
  NotAnObject = NotAnObject
INVARIANTS TypeOK AcceptsWhatConforms OnlyAllowedNamesStopDeploys WrongKeysAreNamed
  AcceptedIsResolvable

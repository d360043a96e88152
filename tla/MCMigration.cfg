SPECIFICATION Spec
CONSTANTS
  Names = {"DB_URL", "API_TOKEN", "AWS_PROFILE"}
  Reserved = {"AWS_PROFILE"}
  SecretShaped = {"API_TOKEN"}
  Targets = {"db", "api", "/shared/api", "shared/api"}
  Path <- Paths
  JsonKeys = {"url"}
  Pins = {"elsewhere", "previous"}
  Contents <- Containers
  Pointers = {"db-url", "api-token", "aws-profile"}
  PointerOf <- PointerNames
  None = None
  MaxDeploys = 2
INVARIANTS TypeOK LiveIsActive StepsKeepLive
PROPERTIES ContractBindsTheSame 
CHECK_DEADLOCK FALSE

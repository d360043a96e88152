SPECIFICATION Spec
CONSTANTS
  Jobs = {j1, j2}
  Infra = {infra}
  Versions = {"v1", "v2"}
  FirstVersion = "v1"
  VaultKeys <- Contracts
  Rest = {"plain", "sidecar"}
  VaultBackend = TRUE
  MaxByHand = 1
  Keys = {"a", "b"}
  Values = {value}
  Absent = Absent
  Unusable = Unusable

PROPERTIES InfraKeepsContent
CHECK_DEADLOCK FALSE

SPECIFICATION AllSpec
CONSTANTS
  main = main async = async broker = broker
  here = here there = there k1 = k1 k2 = k2 word = word a = a b = b x = x v1 = v1 v2 = v2
  Thread = {main, async, broker}
  Home <- Homes
  Ops <- OpsOf
  Project = {p}
  MaxReceipts = 1
  Fault = {"io", "vault", "unlock", "crash"}
  Nobody = Nobody
  Agent = {b1}
  Workspace <- AtHere
  Folder = {here, there}
  Key = {k1, k2}
  Value = {word}
  Empty = empty
  Absent = none
  TTL = 0
  Access = {"read-write", "unclassified"}
  Default <- AllUnclassified
  Requests <- Calls
  Variables <- OneEach
  Policies <- TwoHere
  MaxPlan = 1
  Horizon = 1
  Host = {h}
  Pack = {a, b}
  Manifest <- Manifests
  NoPack = NoPack
  NoTool = NoTool
  Version = {v1, v2}
  Binding = {x}
  MaxUpgrades = 1
  MaxInstalls = 2
INVARIANT SelectedRegistered
PROPERTIES UpdatesKeepTheRest RecordedForRegistered RemovedWithoutGrants LabelsMigrate AgentNeedsAccess OnlyRegistered SingleUse OpensOnRequest RevokedPackNeverRuns ProfileFitsTool

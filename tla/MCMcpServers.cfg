\* Every request is made once, and then only time passes: no deadlock, KeyTick goes on.
SPECIFICATION FairSpec
CONSTANTS
  Call = {1, 2}
  Ttl = 2
  Cooldown = 2
  Timeout = 1
  MaxKid = 2
  Workload <- MCWorkload
  RequiredScope <- MCRequiredScope
  Role = {"viewer", "analyst", "manager"}
  RoleToDbRole <- MCRoleToDbRole
  Conn = {d1}
  NoConn = NoConn
  Table = {"customers"}
  Login <- MCLogin
  Row <- MCRow
  Forbidden = {"delete"}
  Bundles <- MCBundles
  ReadTeam = "salesforce:read.team"
  ReadAll = "salesforce:read.all"
  NoTerritory = ""
  ClosedStage = {"Closed Won"}
  MaxRows = 3
  Dataset <- MCDataset
INVARIANTS
  
  
  DecisionsFollowTheBundle
PROPERTIES
  VerdictIsExcused
  AnswersTellOnlyTheSeen
  EveryRequestIsAnswered

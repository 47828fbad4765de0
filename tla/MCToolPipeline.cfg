SPECIFICATION FairSpec
CONSTANTS
  c1 = c1
  c2 = c2
  v1 = v1
  Caller = {c1, c2}
  Viewer = {v1}
  TenantOf <- MCTenantOf
  HistorySize = 1
  Replay = 1
  Credential <- MCCredential
  PolicyUrl = policy
  Url = {policy, tools}
  NoServer = NoServer
  Conn = {k1, k2, k3, k4}
  MaxIdle = 1
  NoConn = NoConn
  NoCredential = NoCredential
INVARIANTS
  RunsAsItsCaller
  RefusedNeverRuns
  AnsweredIsRecorded
  StreamTellsEveryCall
PROPERTIES
  EveryCallIsAnswered

\* PUTs and starts run out, and then nothing moves: no deadlock check.
SPECIFICATION RateConfigFairSpec
CONSTANTS
  Replica = {r1, r2}
  Request = {q1, q2}
  Tenant = {"acme"}
  RowKey <- MCRowKey
  SeedRows <- MCSeedRows
  Limit = {1, 2}
  Fallback <- MCFallback
  NoReplica = NoReplica
  MaxVersions = 3
  MaxLoads = 3
  MaxStarts = 2
INVARIANTS
  SettledIsCurrent
PROPERTIES
  ImplementsLimitHistory
  NoticeIsActedOn
CHECK_DEADLOCK FALSE

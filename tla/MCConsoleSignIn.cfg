\* When every bound is reached and everything has expired nothing moves: no deadlock check.
SPECIFICATION FairSpec
CONSTANTS
  Scope <- MCScope
  Namespaces = {}
  AlwaysGranted <- MCAlwaysGranted
  User = {"alice", "bob"}
  UserRole <- MCRoles
  ScopeSets <- MCScopeSets
  Challenge = {1, 2}
  Requested <- MCScope
  ClientAllowed <- MCScope
  MaxCode = 2
  NoToken = NoToken
  Browser = {b1, b2}
  MaxFlow = 2
  MaxCallback = 2
  None = None
INVARIANTS
  CodeIsSpentOnce
  SessionIsItsBrowsers
PROPERTIES
  SignInsSettle
CHECK_DEADLOCK FALSE

SPECIFICATION PoolFairSpec
CONSTANTS
  Caller = {c1, c2}
  Credential = {h1, h2}
  Url = {u1, u2}
  Conn = {k1, k2, k3, k4}
  MaxIdle = 1
  NoConn = NoConn
  NoCredential = NoCredential
INVARIANTS
  ExclusiveCheckout
  OwnCredential
  IdleIsClean
  NoConnectionLeaks
PROPERTIES
  DrainsAfterClose

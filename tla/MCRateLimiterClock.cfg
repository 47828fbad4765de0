SPECIFICATION JumpSpec
CONSTANTS
  c1 = c1
  c2 = c2
  u1 = u1
  Caller = {c1, c2}
  User = {u1}
  Tenant = tenant
  UserLimit <- MCUserLimit
  TenantLimit <- MCTenantLimit
  MinTtl = 1
  MaxResends = 0
  MaxTime = 7
  MaxSkew = 2
INVARIANT ClockMintsNothing

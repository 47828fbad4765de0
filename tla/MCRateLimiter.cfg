SPECIFICATION FairSpec
CONSTANTS
  c1 = c1
  c2 = c2
  u1 = u1
  Caller = {c1, c2}
  User = {u1}
  Tenant = tenant
  UserLimit <- MCUserLimit
  TenantLimit <- MCTenantLimit
  MinTtl = 1
  MaxResends = 1
  MaxTime = 4
  MaxSkew = 1
INVARIANTS WithinAllowance  AdmittedIsCharged ReplayChargesOnce
PROPERTY EveryCheckAnswers

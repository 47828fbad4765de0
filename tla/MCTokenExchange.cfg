\* Every mint is made once, and then only time passes: no deadlock, Tick goes on.
SPECIFICATION FairSpec
CONSTANTS
  Call = {c1, c2}
  Subject = {"alice", "bob"}
  Scope <- MCScope
  Namespaces <- MCNamespaces
  AlwaysGranted <- MCAlwaysGranted
  Directory <- MCDirectory
  FirstDirectory <- MCFirstDirectory
  SignInScopes <- MCSignIn
  Server = {"crm"}
  FixedAsk <- MCFixedAsk
  ClientAllowed <- MCScope
  MirrorTtl = 3
  MaxTtl = 3
  Early = 1
  ExchangeTimeout = 1
  NoToken = NoToken
  MaxKid = 2
INVARIANTS
  MirrorsCaller

   

\* Every event id is spent once; when none is left nobody appends: no deadlock check.
SPECIFICATION FairSpec
CONSTANTS
  Tenant = {t1, t2}
  Writer = {w1, w2}
  Event = {e1, e2, e3}
  Body = {b1}
  SeqNo = {1, 2, 3}
  NoWriter = NoWriter
  NoDraft = NoDraft
INVARIANTS
  IInv
  LinkedInOrder
  AnswersAreTrue
PROPERTIES
  ImplementsTables
  ImplementsAuditLog
  EveryAppendSettles
CHECK_DEADLOCK FALSE

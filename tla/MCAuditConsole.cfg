\* The supply of events and sequence numbers ends: deadlock is not checked.
SPECIFICATION ConsoleSpec
CONSTANTS
  Tenant = {t1, t2}
  Event = {e1, e2, e3, e4}
  Body = {b1}
  OtherBody = b2
  BatchSize = 2
  PageSize = 2
  SeqNo = {1, 2, 3, 4, 5}
SYMMETRY Symmetry
INVARIANTS
  DamageIsReported
  IntactIsValid
  CheckedRowsAreGenuine
  PagingMissesNothing
CHECK_DEADLOCK FALSE

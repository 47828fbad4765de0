\* Nobody touches the table: only the verifier and committed appends, whose supply of
\* events and sequence numbers ends: deadlock is not checked.
SPECIFICATION UndamagedSpec
CONSTANTS
  Tenant = {t1, t2}
  Event = {e1, e2}
  Body = {b1}
  OtherBody = b2
  BatchSize = 2
  SeqNo = {1, 2, 3}
SYMMETRY Symmetry
INVARIANT BreakMeansRemoval
CHECK_DEADLOCK FALSE

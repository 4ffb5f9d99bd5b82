\* Two streams that could lock each other out, an upload and another request,
\* with one connection less than there are sessions in need of one.
SPECIFICATION FairSpec
CONSTANTS
  Questions = {q1, q2}
  Uploads = {w1}
  Others = {r1}
  Capacity = 2
INVARIANTS
  TypeOK NoHoldAndWait SlowCallsHoldNothing OnlyIndexTasksAbandon
PROPERTIES
  EveryoneIsServed
CHECK_DEADLOCK FALSE

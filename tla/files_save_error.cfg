\* Only the batch insert of chunks can fail; the database itself is up.
SPECIFICATION Spec
CONSTANTS
  f1 = f1  f2 = f2  u1 = u1  u2 = u2  d1 = d1  d2 = d2
  Files <- OneFile
  Users <- MCUsers
  Owner <- OneOwner
  Deletes = {}
  MaxChunks = 2
  MaxCrashes = 0
  Faults = {"save"}
INVARIANTS
  ProcessingErrorReported
CHECK_DEADLOCK FALSE

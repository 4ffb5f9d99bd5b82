\* Commits succeed and the process lives; MinIO, parser and embedding may fail.
SPECIFICATION FairSpec
CONSTANTS
  f1 = f1  f2 = f2  u1 = u1  u2 = u2  d1 = d1  d2 = d2
  Files <- OneFile
  Users <- MCUsers
  Owner <- OneOwner
  Deletes = {d1, d2}
  MaxChunks = 2
  MaxCrashes = 0
  Faults = {"store", "parse", "embed"}
INVARIANTS
  EndedTaskHasFinalStatus
PROPERTIES
  UploadSettles DeadRowIsRemoved
CHECK_DEADLOCK FALSE

\* Two users, two uploads, two delete requests, every kind of failure, one crash.
SPECIFICATION Spec
CONSTANTS
  f1 = f1  f2 = f2  u1 = u1  u2 = u2  d1 = d1  d2 = d2
  Files <- MCFiles
  Users <- MCUsers
  Owner <- MCOwner
  Deletes = {d1, d2}
  MaxChunks = 2
  MaxCrashes = 1
  Faults = {"store", "db", "save", "parse", "embed", "crash"}
INVARIANTS
  TypeOK DeletedIsGone SearchableIsComplete StrayObjectIsFromUpload
  DeadRowIsFromDeletion AcceptedIsKept RefusedIsNotIndexed
PROPERTIES
  ImplementsDocumentStore
CHECK_DEADLOCK FALSE

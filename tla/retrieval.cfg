\* One question over two files of the asker and one of another user.
SPECIFICATION Spec
CONSTANTS
  f1 = f1  f2 = f2  f3 = f3  u1 = u1  u2 = u2  q1 = q1
  Files = {f1, f2, f3}
  Owner <- MCOwner
  Documents <- MCDocuments
  MaxChunks = 3
  Questions = {q1}
  Asker <- MCAsker
  Distances = {1, 2, 3}
  Threshold = 3
  Limit = 2
INVARIANTS
  TypeOK ChunksFollowDocument SourcesAreClosest NamelessIsDeleted
PROPERTIES
  HitsAreReadable
CHECK_DEADLOCK FALSE

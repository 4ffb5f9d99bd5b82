\* Three requests, two accounts and two names; Keycloak and the database may
\* fail, accounts may be renamed and removed.
SPECIFICATION Spec
CONSTANTS
  Requests = {r1, r2, r3}
  Subs = {s1, s2}
  Names = {n1, n2}
  Faults = {"keycloak", "db", "admin"}
INVARIANTS
  TypeOK TokenHolderIsKnown UserIdIsStable RegisteredIsMine
  HalfRegistrationIsReported
SYMMETRY Symmetry
CHECK_DEADLOCK FALSE

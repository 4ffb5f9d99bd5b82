\* Accounts are renamed and removed in Keycloak, and nothing fails.
SPECIFICATION Spec
CONSTANTS
  Requests = {r1, r2}
  Subs = {s1, s2}
  Names = {n1, n2}
  Faults = {"admin"}
INVARIANTS
  ConflictIs409
CHECK_DEADLOCK FALSE

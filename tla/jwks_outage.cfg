\* A token that fails to decode and Keycloak not answering.
SPECIFICATION Spec
CONSTANTS
  Requests = {r1, r2}
  Keys = {k1, k2}
  TTL = 2
  MaxTime = 2
PROPERTIES
  RefusedTokenIs401

\* Two concurrent streams of requests, two keys that rotate, a lifetime of two
\* ticks, so that a cache may be fresh, stale or wrongly dated.
SPECIFICATION Spec
CONSTANTS
  Requests = {r1, r2}
  Keys = {k1, k2}
  TTL = 2
  MaxTime = 2
INVARIANTS
  TypeOK CacheIsNotOlderThanDated ValidTokenNot401
PROPERTIES
  RetiredKeyExpires
SYMMETRY Symmetry

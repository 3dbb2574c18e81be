\* Five uploads, three keys, a cache of two.
SPECIFICATION Spec
CONSTANTS
  r1 = r1
  r2 = r2
  r3 = r3
  r4 = r4
  r5 = r5
  k1 = k1
  k2 = k2
  k3 = k3
  Request <- MCRequest
  Key = {k1, k2, k3}
  KeyOf <- MCKeyOf
  CacheSize = 2
SYMMETRY EqualUploads
CHECK_DEADLOCK FALSE
INVARIANTS
  TypeOK
  RetryCreatesNoJob
PROPERTIES
  OnlyColdKeysAreEvicted

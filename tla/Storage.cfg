\* Two calls at a time on an object and its bucket, or on the versions of two keys.
SPECIFICATION MCSpec
CONSTANTS
  b1 = b1
  o1 = o1
  o2 = o2
  u1 = u1
  u2 = u2
  p1 = p1
  p2 = p2
  k1 = k1
  k2 = k2
  v1 = v1
  v2 = v2
  v3 = v3
  v4 = v4
  None = None
  Buckets = {b1}
  Objects = {o1, o2}
  Uploads = {u1, u2}
  Callers = {p1, p2}
  BucketOf <- MCBucketOf
  Blocks <- MCBlocks
  MaxCalls = 5
  MaxFaults = 2
  Keys = {k1, k2}
  Versions = {v1, v2, v3, v4}
  Writers = {p1, p2}
  Nobody = Nobody
  MaxVersionFaults = 1
INVARIANTS
  StorageSound
  VersionsSound
SYMMETRY Alike
\* All calls may have been made.
CHECK_DEADLOCK FALSE

\* Three requests to the registry at two processes, any of which may be cut off; two
\* processes that migrate and roll back, where every statement may fail and every call
\* may stop; and two callers who create, merge and delete a branch of two tables, one of
\* which is passed over, while others insert rows, add columns and drop tables.
SPECIFICATION MCSpec
CONSTANTS
  p1 = p1
  p2 = p2
  r1 = r1
  r2 = r2
  r3 = r3
  a = a
  b = b
  c = c
  Nothing = Nothing
  Processes = {p1, p2}
  Requests = {r1, r2, r3}
  Home <- HomeOfAll
  Nodes = {a, b, c}
  Registered = {b}
  RoleOf <- TwoPrimaries
  MaxRequests = 3
  MaxChecks = 1
  MaxRestarts = 1
  MaxAbandoned = 1
  Versions = {1, 2, 3}
  Automatic = {3}
  Statements = 2
  Runners = {r1, r2}
  Repeatable = FALSE
  MaxCalls = 3
  MaxFaults = 2
  Branches = {b1}
  Tables = {t1, s1}
  Columns = {x, y, z}
  Required = {y}
  Opaque = {z}
  System = {s1}
  Internal = {}
  RowIds = {i1, i2}
  Callers = {k1, k2}
  Public = Public
  MaxBranchCalls = 3
  MaxChanges = 2
  MaxFailures = 1
SYMMETRY
  Alike
INVARIANTS
  RegistrySound
  PromotionPrevails
  StatusSound
  BranchesSound
PROPERTIES
  InOrder
  BranchesStartComplete
  MergedTargetsCover
\* No more calls may arrive, and every migration may have been dealt with.
CHECK_DEADLOCK FALSE

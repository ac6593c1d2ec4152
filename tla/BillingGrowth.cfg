\* Two overlapping calls and a failing statement.
SPECIFICATION Spec
CONSTANTS
  p1 = p1
  p2 = p2
  o1 = o1
  o2 = o2
  c1 = c1
  c2 = c2
  a = a
  b = b
  Callers = {p1, p2}
  Offerings = {o1, o2}
  Experiments = {1, 2}
  Customers = {c1, c2}
  Bucket <- Hashes
  VariantNames = {a, b}
  Lists <- SentLists
  Statuses = {"running", "paused"}
  MaxCalls = 4
  MaxFaults = 1
  MaxVariants = 4
SYMMETRY Alike
INVARIANTS
  VariantsSound
  RunningIsWhole
  CurrentIsExclusive
PROPERTIES
  AssignmentSticky
\* The bound on calls ends a behaviour.
CHECK_DEADLOCK FALSE

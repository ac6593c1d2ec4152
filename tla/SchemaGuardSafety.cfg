\* Two instances race on one table, which may be dropped, under every fault the code can meet.
SPECIFICATION Spec
CONSTANTS
  a = a
  b = b
  r1 = r1
  r2 = r2
  r3 = r3
  Nobody = Nobody
  Instances = {a, b}
  Requests = {r1, r2}
  Home <- HomeSplit
  Tables = {"docs"}
  Columns = {"id", "x", "y"}
  Id = "id"
  Payloads <- WideningPayloads
  InitialSchemas <- AnyTable
  MaxColumns = 3
  MaxNewColumns = 2
  Environment = {"abort", "listener", "restart", "time"}
  MaxStarts = 2
  MaxDrops = 1
SYMMETRY SwapSides
INVARIANTS
  GuardSound
  CacheSound
  BoundSound
  AuditSound
PROPERTIES
  ImplementsEvolution
\* Every request may have ended and no more may arrive.
CHECK_DEADLOCK FALSE

\* Does an instance that listens end with a cache equal to the database?
SPECIFICATION Spec
CONSTANTS
  a = a
  b = b
  r1 = r1
  r2 = r2
  r3 = r3
  Nobody = Nobody
  Instances = {a, b}
  Requests = {r1, r2}
  Home <- HomeSplit
  Tables = {"docs"}
  Columns = {"id", "x"}
  Id = "id"
  Payloads <- XPayloads
  InitialSchemas <- XTable
  MaxColumns = 3
  MaxNewColumns = 2
  Environment = {}
  MaxStarts = 3
  MaxDrops = 0
INVARIANTS
  CachesConverge
\* Every request may have ended and no more may arrive.
CHECK_DEADLOCK FALSE

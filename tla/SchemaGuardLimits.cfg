\* Three columns at most and one addition per window, for a table of one or two columns
\* that two requests on one instance and one on another add to; every request ends.
SPECIFICATION OnceEachSpec
CONSTANTS
  a = a
  b = b
  r1 = r1
  r2 = r2
  r3 = r3
  Nobody = Nobody
  Instances = {a, b}
  Requests = {r1, r2, r3}
  Home <- HomeBoth
  Tables = {"docs"}
  Columns = {"id", "x", "y", "z"}
  Id = "id"
  Payloads <- AddingPayloads
  InitialSchemas <- GrowingTable
  MaxColumns = 3
  MaxNewColumns = 1
  Environment = {"abort", "time"}
  MaxStarts = 3
  MaxDrops = 0
INVARIANTS
  LimitsHold
PROPERTIES
  EveryRequestEnds
\* Every request may have ended and no more may arrive.
CHECK_DEADLOCK FALSE

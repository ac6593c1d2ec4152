\* Three calls, two at a time, about a purchase in each store of one customer.
SPECIFICATION MCSpec
CONSTANTS
  c1 = c1
  basic = basic
  pro = pro
  e1 = e1
  p1 = p1
  p2 = p2
  s1 = s1
  a1 = a1
  g1 = g1
  Nothing = Nothing
  Customers = {c1}
  Products = {basic, pro}
  Endpoints = {e1}
  Callers = {p1, p2}
  Originals = {s1, a1, g1}
  StoreOf <- MCStoreOf
  Entitlements <- MCEntitlements
  Changes <- MCChanges
  MaxClock = 2
  MaxNotices <- MCMaxNotices
  MaxCalls = 3
  MaxFaults = 1
  MaxGraces = 1
INVARIANTS
  AnnouncedOnce
  ExpiredHasEnded
  CancelledAtStore
  PurchasesAreRecorded
  ResolvedFromAll
SYMMETRY CallersAlike
\* All calls may have been made.
CHECK_DEADLOCK FALSE

SPECIFICATION Spec
CONSTANTS
  TableNos = {0, 2}
  Ips = {1, 2, 3, 4, 5}
  Values = {2}
  AddrOf <- MCAddrOf
  Arrivals <- MCArrivals
  FACTOR = 2
  Depth = 6
  Stalls = {FALSE, TRUE}
  MaxTime = 17
INVARIANTS
  JudgedByItsRead
  TableSound
  SmoothIsExact
CHECK_DEADLOCK FALSE

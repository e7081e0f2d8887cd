SPECIFICATION Spec
CONSTANTS
  TableNos = {1}
  Ips = {1, 2, 3, 4, 5}
  Values = {2}
  AddrOf <- MCAddrOf
  Arrivals <- MCArrivals
  FACTOR = 2
  Depth = 6
  Stalls = {FALSE, TRUE}
  MaxTime = 17
INVARIANTS
  RecordedOrSent
CHECK_DEADLOCK FALSE

SPECIFICATION FairSpec
CONSTANTS
  a1 = a1
  a2 = a2
  b1 = b1
  b2 = b2
  c1 = c1
  c2 = c2
  A = A
  B = B
  C = C
  Jobs = {a1, a2, b1, b2, c1, c2}
  TickerOf <- MCTickerOf
  ArrivalOrders <- MCArrivals
  MaxWorkers = 2
  MaxInflight = 4
  MaxPerTicker = 1
INVARIANTS
  BookkeepingExact
  WorkConserving
  TickerFair
PROPERTIES
  Drains
  IsJobPool
CHECK_DEADLOCK FALSE

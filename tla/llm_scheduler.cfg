SPECIFICATION FSpec
CONSTANTS
  a1 = a1
  a2 = a2
  ar = ar
  b1 = b1
  br = br
  d1 = d1
  d2 = d2
  d3 = d3
  n1 = n1
  n2 = n2
  c1 = c1
  c2 = c2
  A = A
  B = B
  gA = gA
  gB = gB
  tickerU = tickerU
  tickerV = tickerV
  Jobs = {a1, a2, ar, b1, br, d1, d2, d3, n1, n2, c1, c2}
  StageOf <- MCStageOf
  GroupOf <- MCGroupOf
  TickerOf <- MCTickerOf
  FollowUp <- MCFollowUp
  ArrivalOrders <- MCArrivals
  MaxWorkers = 2
  MaxPerGroup = 1
  MaxPerTicker = 2
INVARIANTS
  BookkeepingExact
  WorkConserving
  LaneGap
PROPERTIES
  IsJobPool
  Drains
CHECK_DEADLOCK FALSE

SPECIFICATION FairSpec
CONSTANTS
  c1 = c1
  c2 = c2
  k1 = k1
  k2 = k2
  n1 = n1
  n2 = n2
  NoNode = NoNode
  Clients <- MCClients2
  Ticks <- MCTicks
  Nodes <- MCNodes
  Granularities = {"s"}
  Intervals = {1}
  INT_MAX = 3
  Expiries = {2, 7}
  Functions = {"null", "api"}
  MaxTimers = 2
  SemMax = 1
INVARIANTS TypeOK CountsMatch ListsHoldLiveNodes ExpiredOnTime NoLostWakeup
PROPERTY FirstExpiryIsHandled
CHECK_DEADLOCK FALSE

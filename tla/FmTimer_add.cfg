SPECIFICATION Spec
CONSTANTS
  c1 = c1
  c2 = c2
  k1 = k1
  k2 = k2
  n1 = n1
  n2 = n2
  NoNode = NoNode
  Clients <- MCClients1
  Ticks <- MCTicks
  Nodes <- MCNodes
  Granularities = {"s"}
  Intervals = {2}
  INT_MAX = 7
  Expiries = {2, 3}
  Functions = {"plain"}
  MaxTimers = 2
  SemMax = 1
INVARIANT AddReturnsTimerID
CHECK_DEADLOCK FALSE

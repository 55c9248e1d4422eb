SPECIFICATION FairSpec
CONSTANTS
  p1 = p1
  p2 = p2
  c1 = c1
  c2 = c2
  x = x
  y = y
  z = z
  w = w
  Nothing = Nothing
  Producers <- MCProducers
  Consumers <- MCConsumers
  Items <- MCItems
  Capacity = 2
INVARIANTS TypeOK NoLostWakeup
PROPERTIES AbstractSpec PushReturns Drains

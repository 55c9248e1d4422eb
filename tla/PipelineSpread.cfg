SPECIFICATION Spec
CONSTANTS
  a = a
  b = b
  c = c
  d = d
  NoFlow = NoFlow
  Flows <- MCFlows
  Hash <- MCHash
  FlowOf <- MCInputSpread
  NumPackets = 4
  NumLBs = 2
  FpsPerLB = 2
  Capacity = 1
INVARIANTS EveryFPUsed

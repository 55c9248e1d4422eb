SPECIFICATION Spec
CONSTANTS
  a = a
  b = b
  c = c
  d = d
  NoFlow = NoFlow
  Flows <- MCFlows
  Hash <- MCHash
  FlowOf <- MCInput4
  NumPackets = 4
  NumLBs = 2
  FpsPerLB = 2
  Capacity = 2
INVARIANTS FlowAffinity OffDiagonalIdle
PROPERTIES FilterSpec

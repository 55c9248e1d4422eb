SPECIFICATION Spec
CONSTANTS
  a = a
  b = b
  c = c
  d = d
  NoFlow = NoFlow
  Flows <- MCFlows
  Hash <- MCHash
  FlowOf <- MCInput3
  NumPackets = 3
  NumLBs = 2
  FpsPerLB = 1
  Capacity = 1
INVARIANTS ForwardedIsWritten

SPECIFICATION FairSpec
CONSTANTS
  Names <- MCNames
  NoName = NoName
  AppOf <- MCAppOf
  PartsOf <- MCPartsOf
  NumLBs = 2
  FPsPerLB = 2
  Capacity = 1
  Captures <- MCCaptures
  Options <- MCOptions
  Hash <- MCHash
INVARIANTS TypeOK SameAsSequential FlowOrderKept NothingVanishes ForwardedIsWritten
PROPERTIES Termination

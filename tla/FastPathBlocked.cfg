SPECIFICATION Spec
CONSTANTS
  Flows <- MCFlows
  Names <- MCNames
  AppOf <- MCAppOf
  Rules <- MCRules
  Inputs <- MCInputs
  MaxConnections = 2
  MaxPackets = 3
  MaxRuleChanges = 0
INVARIANTS BlockedFlowDropped

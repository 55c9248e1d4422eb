SPECIFICATION Spec
CONSTANTS
  Flows <- MCFlows
  Names <- MCNames
  AppOf <- MCAppOf
  Rules <- MCRules
  Inputs <- MCInputs
  MaxConnections = 2
  MaxPackets = 3
  MaxRuleChanges = 1
INVARIANTS TypeOK TableBounded StandingRuleDrops BlockedForAReason CountersAgree
PROPERTIES BlockedUntilClosed

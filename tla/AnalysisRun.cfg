SPECIFICATION FairSpec
CONSTANTS
  run = run
  other = other
  AppNames <- MCAppNames
  Wildcards <- MCWildcards
  Octets <- MCOctets
  NumberOf <- MCNumberOf
  Requests <- MCRequests
  FromDashboard <- MCFromDashboard
  BodyOf <- MCBodyOf
INVARIANTS TypeOK SuccessIsOwn
PROPERTIES Answered

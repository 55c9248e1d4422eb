SPECIFICATION Spec
CONSTANTS
  NotANumber = NotANumber
  AppNames <- MCAppNames
  Wildcards <- MCWildcards
  Octets <- MCOctets
  NumberOf <- MCNumberOf
  Changes <- MCChanges
  Commands <- MCCommands
  OldFiles <- MCOldFiles
  MaxChanges = 3
INVARIANTS TypeOK SavedRulesReload

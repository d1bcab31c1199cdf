SPECIFICATION Spec
CONSTANTS
  Cases <- MCCases
  Worlds <- MCWorlds
  NaN = NaN
  OutputCap = 2
  MaxChanges = 2
INVARIANTS
  PassedIsBacked
  QuietWorldIsJudgedRight
  

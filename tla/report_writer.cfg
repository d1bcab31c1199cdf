SPECIFICATION Spec
CONSTANTS
  Runs = {r1, r2}
  F = 2
  Size = 2
  None = None
  StartedAt <- MCStartedAt
  Project <- MCProject
  ShortId <- MCShortId
INVARIANTS
  NeverHalfAReport
PROPERTIES
  ImplementsReportDirectory

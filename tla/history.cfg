SPECIFICATION Spec
CONSTANTS
  Scenarios <- MCScenarios
  Ages <- MCAges
  MaxStep = 1
INVARIANTS
  KnownGoodHolds
  GateSeesAFailedDrill
  RtoIsEarned
  AlarmHasACause

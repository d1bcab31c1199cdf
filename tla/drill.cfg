SPECIFICATION FairSpec
CONSTANTS
  N = 2
  Required = {1}
INVARIANTS
  HandsOff
  LiveIsTracked
  CleanedUpMeansGone
  EnvironmentGoesFirst
  NoSilentLeak
  SuccessIsProven
  ReportOnEveryPath
PROPERTIES
  NothingCreatedAfterDown
  ImplementsLease
  BudgetBoundsTheProcess
  InterruptionEndsTheProcess

SPECIFICATION FairSpec
CONSTANTS
  N = 2
  MaxAttempts = 3
  Timeout = 1
  Delay = 1
INVARIANTS
  OutcomeIsTheLastWord
  CheckTimeBounded
  NoProgramLeftBehind
PROPERTIES
  ImplementsCheckList
  ChecksEnd

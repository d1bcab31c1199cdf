SPECIFICATION WaitFairSpec
CONSTANTS
  Services = {s1, s2}
  Timeout = 3
  PsLimit = 1
  LogsLimit = 1
  Unseen = Unseen
INVARIANTS
  ReadyWasSeenTwice
  FailureIsNotLateness
  WaitBounded
PROPERTY WaitEnds

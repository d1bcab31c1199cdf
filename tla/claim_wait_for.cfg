SPECIFICATION WaitSpec
CONSTANTS
  Services = {s1, s2}
  Timeout = 3
  PsLimit = 1
  LogsLimit = 1
  Unseen = Unseen
INVARIANT RequestedServicesAreReady

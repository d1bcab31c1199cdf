SPECIFICATION Spec
CONSTANTS
  Descendants <- MCDescendants
  MaxCap = 2
  PipeSize = 2
  Buffer = 2
  MaxWritten = 3
INVARIANTS
  CaptureIsAPrefix
  NoChildOutlivesTheCall
PROPERTIES
  NeverBlockedForEver
  CallEnds

SPECIFICATION Spec
CONSTANTS
  Dirs <- MCDirs
  Files <- MCFiles
  Links <- MCLinks
  Project <- MCProject
  Sound <- MCSound
  Documents <- MCDocuments
  MaxTimeout = 3
  MaxRounds = 2
INVARIANTS
  ScenarioIsSound
  NoFalseAlarm
  HidesOnlyItsOwn
  RepairEnds

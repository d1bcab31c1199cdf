SPECIFICATION Spec
CONSTANTS
  a = a
  b = b
  sub = sub
  link = link
  Slots = {a, b}
  Top = Top
  Dirs = {Top, sub}
  Links = {link}
  Home <- Tree
  Latest = Latest
  Start = 2
  MaxTime = 4
  Target = 0
INVARIANTS
  NamesWhatWasRestored
  NothingStaleIsRestored
  RpoPassIsEarned

SPECIFICATION Spec
CONSTANTS
  N = 2
  Required = {1, 2}
INVARIANTS
  DestroyedOnEveryPath

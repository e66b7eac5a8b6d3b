SPECIFICATION Spec
CONSTANTS
  Emitted <- MCEmitted
  Numbers = {1}
  Arities = {1}
  Budget = 20
  MaxBytes = 8
INVARIANT InstalledKeepsHeights
INVARIANT CompiledCodeTranslates
INVARIANT RegionFollowsTheInterpreter
CHECK_DEADLOCK FALSE

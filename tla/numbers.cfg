SPECIFICATION Spec
CONSTANTS
  Bits = 8
  ByteBits = 4
  Seeds <- MCSeeds
  Limit = 8192
  MaxShift = 8
  MaxSteps = 4
INVARIANT RepresentsExactly
INVARIANT ComparesNumbers
CHECK_DEADLOCK FALSE

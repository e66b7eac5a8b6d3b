SPECIFICATION Spec
CONSTANTS
  f = f
  r = r
  Codes = {f, r}
  Arity <- MCArity
  Regions = {r}
  Image = {r}
  Places = {0, 1, 2}
  ReturnPlaces = {1}
  HandlerPlaces = {2}
  Packets = {"Overflow", "e"}
  Overflow = "Overflow"
  Nested = {}
  StackLen = 10
  MaxGC = 1
  Spare = 3
  None = None
INVARIANT SideStacksShadow
INVARIANT NoStaleCode
PROPERTY ImplementsActivations
CHECK_DEADLOCK FALSE

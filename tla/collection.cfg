SPECIFICATION FairSpec
CONSTANTS
  w = w  s1 = s1  s2 = s2  r1 = r1  r2 = r2  p = p
  stack = stack  pw = pw  ps = ps  pr = pr
  Null = Null
  From <- MCFrom
  Permanent <- MCPermanent
  Weak = {w, pw}
  Visited <- RootOrder
  Heaps <- MCHeaps
INVARIANTS CopiesAreFaithful WeakVerdicts ToSpaceSuffices
PROPERTIES ImplementsTrace CollectionEnds
CHECK_DEADLOCK FALSE

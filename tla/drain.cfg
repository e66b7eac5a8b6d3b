SPECIFICATION FairSpec
CONSTANTS
  r = r  a = a  b = b  c = c  d = d  e = e  x = x
  w1 = w1  w2 = w2  w3 = w3
  Null = Null
  Objects <- Heap
  Body <- Words
  Weak = {e}
  RootSeq <- RootsPhase
  Workers = {w1, w2, w3}
  ChunkWords = 5
  InitialWords = 2
  OversizeWords = 3
  SplitWords = 2
INVARIANTS CopiesAreWhole SlotsScannedOnce ArenaTiles
PROPERTIES ImplementsTrace DrainEnds

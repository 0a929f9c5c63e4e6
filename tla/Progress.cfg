CONSTANTS
  u1 = u1
  u2 = u2
  s1 = s1
  Handler = Handler
  GC = GC
  NoThread = NoThread
  Globals <- TwoGlobals
  InitialHeaps <- Heaps
  ShrinkReserved <- Shrink
SPECIFICATION MCSpec
INVARIANTS PassesFindHeaders Compacted
PROPERTIES CompactionEnds SignalsAreHandled GCSignalIsHandled

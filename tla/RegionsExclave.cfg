CONSTANTS
  Functions <- OnlyExclave
  MaxFrames = 3
  Buffer = 10
SPECIFICATION Spec
CHECK_DEADLOCK FALSE
INVARIANTS CallerKept

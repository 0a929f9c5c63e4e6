CONSTANTS
  Starts <- TwoStarts
  Size = 24
  CardSize = 3
  Globals <- Registers2
  StackCell <- StackRegister
  Statics <- Static
  Programs <- Mutators
  LargeSequence = 5
  Requests = {3}
  MaxOps = 6
  ShrinkReserved <- MCShrink
SPECIFICATION MCSpec
INVARIANTS GraphPreserved InvariantForGC 
PROPERTIES CollectionAdvances

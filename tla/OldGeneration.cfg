CONSTANTS
  a = a
  b = b
  c = c
  d = d
  e = e
  Null = Null
  Away = Away
  Objects = {a, b, c, d, e}
  CounterLimit = 2048
  TableMin = 2
  Page = 4
  CardPages = 4
  Chunk = 8
  SizeMax = 127
  Factor = 2
  Rounds = 2
  InitialLive = 3
  Allocations = {0, 13}
  Requests = {0, 5}
  Addresses = {a1, a2, a3}
  NoAddress = NoAddress
  MaxMajors = 3
  Ratios <- HeapRatios
  Settings <- Machines
SPECIFICATION MCSpec
CHECK_DEADLOCK FALSE
INVARIANTS  SharingCorrect SizesOk LiveDataKept
PROPERTIES ImplementsDepthFirst MarkingEnds Resumes

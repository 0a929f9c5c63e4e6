CONSTANTS
  a = a
  b = b
  t1 = t1
  t2 = t2
  t3 = t3
  Threads = {t1, t2, t3}
  Channels = {a, b}
  Requests <- Choices
  MaxOps = 2
  Ending = {}
  Fan = 2
  Nil = Nil
  NoThread = NoThread
SYMMETRY Symmetry
SPECIFICATION Spec
CHECK_DEADLOCK FALSE
INVARIANTS SchedulingOk
 

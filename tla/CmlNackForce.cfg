CONSTANTS
  a = a
  b = b
  t1 = t1
  t2 = t2
  t3 = t3
  Threads = {t1, t2, t3}
  Channels = {a, b}
  Requests <- NackRace
  MaxOps = 1
  Ending = {}
  Fan = 2
  Nil = Nil
  NoThread = NoThread
SPECIFICATION Spec
CHECK_DEADLOCK FALSE
INVARIANTS NeverFails

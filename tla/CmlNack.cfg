CONSTANTS
  a = a
  b = b
  t1 = t1
  t2 = t2
  t3 = t3
  Threads = {t1, t2, t3}
  Channels = {a, b}
  Requests <- Servers
  MaxOps = 1
  Ending = {t2}
  Fan = 2
  Nil = Nil
  NoThread = NoThread
SPECIFICATION FairSpec
CHECK_DEADLOCK FALSE
INVARIANTS SchedulingOk NackIffLost
PROPERTIES PartiesReturn

CONSTANTS
  i1 = i1
  i2 = i2
  QueueItems = {i1, i2}
  QueueLen = 4
  m1 = m1
  m2 = m2
  t1 = t1
  t2 = t2
  t3 = t3
  c1 = c1
  c2 = c2
  u1 = u1
  u2 = u2
  u3 = u3
  Threads = {t1, t2, t3}
  Boxes = {m1, m2}
  Requests <- Consumers
  MaxOps = 2
  Fan = 2
  Nil = Nil
  NoThread = NoThread
SYMMETRY Symmetry
SPECIFICATION MCSpec
CHECK_DEADLOCK FALSE
INVARIANTS SchedulingOk 
PROPERTIES  ImplementsSequence

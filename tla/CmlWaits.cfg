CONSTANTS
  t1 = t1
  t2 = t2
  t3 = t3
  d1 = d1
  d2 = d2
  in = in
  out = out
  Programs <- TwoPrograms
  Requests <- Mixed
  Descriptors = {d1, d2}
  Flags = {in, out}
  HangUp = HangUp
  States <- Inputs
  MaxOps = 2
  Fan = 3
  MaxTime = 2
  Nil = Nil
  NoThread = NoThread
SPECIFICATION Spec
CHECK_DEADLOCK FALSE
 
PROPERTIES TimeOutsReturn
